---- MODULE Spec2Model ----
(***************************************************************************)
(* capi-vip-allocator: the background ClusterReconciler                    *)
(* (pkg/controller/cluster_reconciler.go) and the GeneratePatches runtime  *)
(* hook (pkg/runtime/extension.go) acting on one API-server store of       *)
(* Clusters, ClusterClasses, GlobalInClusterIPPools, IPAddressClaims and   *)
(* IPAddresses, together with the external pool manager and the user.      *)
(* Every API call of the two entry points is one atomic step.              *)
(*                                                                         *)
(* Strings that the code splits or trims (label values, class names) are   *)
(* sequences of atoms: "," and " " are the separator and the blank, any    *)
(* other atom is a run of ordinary characters.                             *)
(***************************************************************************)
EXTENDS Integers, Sequences, FiniteSets, TLC

VARIABLES clusters, claims, addresses, pools, classes, req, queue, r, last,
          h, hResp

vars == <<clusters, claims, addresses, pools, classes, req, queue, r, last,
          h, hResp>>

(***************************************************************************)
(* Program constants                                                       *)
(***************************************************************************)
controlPlaneRole == "control-plane"
ingressRole == "ingress"
clusterClassLabel == "vip.capi.gorizond.io/cluster-class"
roleLabel == "vip.capi.gorizond.io/role"
clusterNameLabel == "cluster.x-k8s.io/cluster-name"
DefaultPort == 6443
defaultPort == 6443

(***************************************************************************)
(* Bounds and the small universe of the model                              *)
(***************************************************************************)
MaxPolls == 2

Clusters == {"c1"}
Namespace == "default"
ClassX == <<"x">>
ManualHost == "10.0.0.100"
UserPort == 7443
Addrs == {"10.0.0.15", "10.0.0.16"}

(***************************************************************************)
(* Strings as sequences of atoms: strings.TrimSpace and strings.Split      *)
(***************************************************************************)
RECURSIVE TrimLeft(_)
TrimLeft(s) == IF s # <<>> /\ Head(s) = " " THEN TrimLeft(Tail(s)) ELSE s

RECURSIVE TrimRight(_)
TrimRight(s) ==
  IF s # <<>> /\ s[Len(s)] = " " THEN TrimRight(SubSeq(s, 1, Len(s) - 1)) ELSE s

TrimSpace(s) == TrimRight(TrimLeft(s))

RECURSIVE SplitFrom(_, _, _)
SplitFrom(s, i, cur) ==
  IF i > Len(s) THEN <<cur>>
  ELSE IF s[i] = "," THEN <<cur>> \o SplitFrom(s, i + 1, <<>>)
  ELSE SplitFrom(s, i + 1, Append(cur, s[i]))

Split(s) == SplitFrom(s, 1, <<>>)

\* a variant that knows the exact match only
labelContainsValue_Mut(labelValue, targetValue) ==
  TrimSpace(labelValue) = TrimSpace(targetValue)

labelContainsValue(labelValue, targetValue) ==
  LET tv == TrimSpace(targetValue)
      values == Split(labelValue)
  IN \/ TrimSpace(labelValue) = tv
     \/ \E i \in 1..Len(values) : TrimSpace(values[i]) = tv

(***************************************************************************)
(* Objects of the store                                                    *)
(***************************************************************************)
NoCluster ==
  [exists |-> FALSE, uid |-> 0, class |-> <<>>, host |-> "", port |-> 0,
   vars |-> <<>>, ingEnabled |-> "", ingVip |-> "", ingLabel |-> ""]

NoClaim ==
  [exists |-> FALSE, namespace |-> "", name |-> <<"", "">>, role |-> "",
   clusterName |-> "",
   pool |-> "", owners |-> <<>>, addressRef |-> <<"", "">>, rv |-> 0,
   by |-> "", for |-> ""]

NoClass == [exists |-> FALSE, name |-> <<>>, namespace |-> "", variables |-> {}]

NoName == <<"", "">>

\* fmt.Sprintf("%q", ip): the address as a quoted JSON string scalar
Quote(ip) == <<"quoted", ip>>

\* json.Unmarshal(raw, &string): succeeds only on a JSON string
UnquoteOrEmpty(raw) == IF raw[1] = "quoted" THEN raw[2] ELSE ""

\* fmt.Sprintf("vip-cp-%s", cluster.Name) / fmt.Sprintf("vip-ingress-%s", ...)
ClaimName(role, t) ==
  IF role = controlPlaneRole THEN <<"vip-cp-", t>> ELSE <<"vip-ingress-", t>>

\* metav1.NewControllerRef(cluster, ...)
NewControllerRef(t, obj) == [name |-> t, uid |-> obj.uid]

\* a variant that adopts whatever it finds
NeedsAdoption_Mut(c) == TRUE

\* ensureClaim line 173: len(claim.GetOwnerReferences()) == 0
NeedsAdoption(c) == Len(c.owners) = 0

\* client.Get of an IPAddressClaim by name
GetClaim(name) ==
  IF \E c \in claims : c.name = name
    THEN CHOOSE c \in claims : c.name = name
    ELSE NoClaim

\* client.Get of an IPAddress by name
GetAddress(name) ==
  IF \E a \in addresses : a.name = name
    THEN (CHOOSE a \in addresses : a.name = name).address
    ELSE ""

AddressExists(name) == \E a \in addresses : a.name = name

\* client.Get of a ClusterClass by name and namespace
GetClass(name, ns) ==
  IF \E c \in classes : c.name = name /\ c.namespace = ns
    THEN CHOOSE c \in classes : c.name = name /\ c.namespace = ns
    ELSE NoClass

(***************************************************************************)
(* Pool resolver of the reconciler: list all pools, filter client-side.    *)
(* The order of the listed items is not fixed, so "the first match" is any *)
(* matching pool.                                                          *)
(***************************************************************************)
PoolMatches(pool, className, role) ==
  /\ clusterClassLabel \in DOMAIN pool.labels
  /\ labelContainsValue(pool.labels[clusterClassLabel], className)
  /\ roleLabel \in DOMAIN pool.labels
  /\ labelContainsValue(pool.labels[roleLabel], <<role>>)

findPool(className, role) ==
  {p.name : p \in {q \in pools : PoolMatches(q, className, role)}}

\* a variant that looks in the target's namespace first
getClusterClass_Mut(className, clusterNamespace) ==
  IF GetClass(className, clusterNamespace).exists
    THEN GetClass(className, clusterNamespace)
    ELSE GetClass(className, "")

\* getClusterClass: class-scoped lookup first, namespace-scoped fallback
getClusterClass(className, clusterNamespace) ==
  IF GetClass(className, "").exists
    THEN GetClass(className, "")
    ELSE GetClass(className, clusterNamespace)

hasClusterVipVariable(clusterClass) == "clusterVip" \in clusterClass.variables

(***************************************************************************)
(* patchClusterEndpoint: the in-memory mutation and the merge patch        *)
(***************************************************************************)
VarIndex(vs, name) ==
  IF \E i \in 1..Len(vs) : vs[i].name = name
    THEN CHOOSE i \in 1..Len(vs) :
           vs[i].name = name /\ \A j \in 1..(i - 1) : vs[j].name # name
    ELSE 0

\* a variant that appends without looking for an existing entry
UpsertClusterVip_Mut(vs, ip) ==
  Append(vs, [name |-> "clusterVip", value |-> Quote(ip)])

\* patchClusterEndpoint lines 341-356: replace in place, else append
UpsertClusterVip(vs, ip) ==
  LET i == VarIndex(vs, "clusterVip")
  IN IF i > 0
       THEN [vs EXCEPT ![i].value = Quote(ip)]
       ELSE Append(vs, [name |-> "clusterVip", value |-> Quote(ip)])

SetEndpoint(obj, ip) ==
  [obj EXCEPT !.host = ip,
              !.port = IF obj.port = 0 THEN DefaultPort ELSE obj.port]

MutateCluster(obj, ip, clusterClass) ==
  LET e == SetEndpoint(obj, ip)
  IN IF hasClusterVipVariable(clusterClass)
       THEN [e EXCEPT !.vars = UpsertClusterVip(obj.vars, ip)]
       ELSE e

\* client.MergeFrom(snapshot) + client.Patch: a JSON merge patch carries the
\* fields in which the modified object differs from the snapshot; a list
\* (topology.variables) is carried whole.  No resourceVersion precondition.
MergePatch(stored, snapshot, modified) ==
  [f \in DOMAIN stored |->
     IF modified[f] # snapshot[f] THEN modified[f] ELSE stored[f]]

(***************************************************************************)
(* Reconciler: one worker, one Reconcile at a time                         *)
(***************************************************************************)
Idle ==
  [pc |-> "idle", t |-> "", obj |-> NoCluster, role |-> "", claim |-> NoClaim,
   ip |-> "", cls |-> NoClass, host0 |-> "", unowned0 |-> FALSE]

NoLast == [t |-> "", result |-> "none", err |-> "", host0 |-> "",
           unowned0 |-> FALSE]

\* An outcome of a step: either the next position of the reconcile or its end
Goto(rr) == [done |-> FALSE, r |-> rr, result |-> "", err |-> ""]
Return(result, err) == [done |-> TRUE, r |-> Idle, result |-> result, err |-> err]

Commit(o, cur, q) ==
  /\ r' = o.r
  /\ last' = IF o.done
               THEN [t |-> cur.t, result |-> o.result, err |-> o.err,
                     host0 |-> cur.host0, unowned0 |-> cur.unowned0]
               ELSE last
  /\ queue' = IF o.done /\ o.result \in {"error", "requeue"}
                THEN q \cup {cur.t} ELSE q

\* Reconcile lines 100-129: the control-plane step starts with ensureClaim
ControlPlaneStep(cur) ==
  Goto([cur EXCEPT !.pc = "getclaim", !.role = controlPlaneRole,
                   !.claim = NoClaim, !.ip = ""])

\* what follows a not-ready address
AfterPending(cur) ==
  IF cur.role = ingressRole THEN ControlPlaneStep(cur)
  ELSE Return("requeue", "")

\* a variant that never takes the branch for a host already set
HostAlreadySet_Mut(cur) == FALSE

\* Reconcile line 100: the control-plane step of a target whose endpoint
\* host is set only calls ensureClaim and returns
HostAlreadySet(cur) == cur.role = controlPlaneRole /\ cur.obj.host # ""

\* a variant that goes on to the patch without resolving the address
AfterEnsureOk_Mut(cur, c) ==
  LET cur2 == [cur EXCEPT !.claim = c]
  IN IF HostAlreadySet(cur)
       THEN Return("ok", "")
     ELSE IF cur.role = ingressRole
       THEN Goto([cur2 EXCEPT !.pc = "ingpatch"])
     ELSE Goto([cur2 EXCEPT !.pc = "getclass"])

\* what follows ensureClaim / ensureClaimWithRole returning a claim
AfterEnsureOk(cur, c) ==
  LET cur2 == [cur EXCEPT !.claim = c]
  IN IF HostAlreadySet(cur)
       THEN Return("ok", "")
     ELSE IF c.addressRef = NoName THEN AfterPending(cur2)
     ELSE Goto([cur2 EXCEPT !.pc = "getaddr"])

\* what follows ensureClaim / ensureClaimWithRole returning an error
AfterEnsureErr(cur, err) ==
  IF HostAlreadySet(cur)
    THEN Return("ok", "")
    ELSE Return("error", err)

\* a variant that takes the ingress label for the ingress-vip annotation
IngressSkipped_Mut(obj) == obj.ingEnabled = "false" \/ obj.ingLabel # ""

\* Reconcile line 89 and ensureIngressVIP lines 407-411: the ingress role is
\* left out when the annotation ingress-enabled is "false" or the annotation
\* ingress-vip holds a value
IngressSkipped(obj) == obj.ingEnabled = "false" \/ obj.ingVip # ""

\* a variant that skips a missing target only, not one without a class
Reconcile_Get_Mut ==
  /\ r.pc = "idle"
  /\ \E t \in queue :
       LET obj == clusters[t]
           c0 == GetClaim(ClaimName(controlPlaneRole, t))
           cur == [Idle EXCEPT !.t = t, !.obj = obj, !.host0 = obj.host,
                     !.unowned0 = obj.exists /\ c0.exists /\ Len(c0.owners) = 0]
           o == IF ~obj.exists THEN Return("ok", "")
                ELSE IF ~IngressSkipped(obj)
                  THEN Goto([cur EXCEPT !.pc = "getclaim", !.role = ingressRole])
                ELSE ControlPlaneStep(cur)
       IN Commit(o, cur, queue \ {t})
  /\ UNCHANGED <<clusters, claims, addresses, pools, classes, req, h, hResp>>

Reconcile_Get ==
  /\ r.pc = "idle"
  /\ \E t \in queue :
       LET obj == clusters[t]
           c0 == GetClaim(ClaimName(controlPlaneRole, t))
           cur == [Idle EXCEPT !.t = t, !.obj = obj, !.host0 = obj.host,
                     !.unowned0 = obj.exists /\ c0.exists /\ Len(c0.owners) = 0]
           o == IF ~obj.exists \/ obj.class = <<>> THEN Return("ok", "")
                ELSE IF ~IngressSkipped(obj)
                  THEN Goto([cur EXCEPT !.pc = "getclaim", !.role = ingressRole])
                ELSE ControlPlaneStep(cur)
       IN Commit(o, cur, queue \ {t})
  /\ UNCHANGED <<clusters, claims, addresses, pools, classes, req, h, hResp>>

\* ensureClaim lines 171-188 / ensureClaimWithRole lines 470-485: the Get
ensureClaim_Get ==
  /\ r.pc = "getclaim"
  /\ LET c == GetClaim(ClaimName(r.role, r.t))
         o == IF ~c.exists THEN Goto([r EXCEPT !.pc = "findpool"])
              ELSE IF NeedsAdoption(c)
                THEN Goto([r EXCEPT !.pc = "adopt",
                     !.claim = [c EXCEPT !.owners =
                                   <<NewControllerRef(r.t, r.obj)>>]])
              ELSE AfterEnsureOk(r, c)
     IN Commit(o, r, queue)
  /\ UNCHANGED <<clusters, claims, addresses, pools, classes, req, h, hResp>>

\* a variant whose update replaces the stored claim by the reconciler's
\* copy, status included, whatever its resourceVersion
ensureClaim_Adopt_Mut ==
  /\ r.pc = "adopt"
  /\ LET s == GetClaim(r.claim.name)
     IN IF ~s.exists
          THEN /\ Commit(AfterEnsureErr(r, "adopt IPAddressClaim: not found"),
                         r, queue)
               /\ UNCHANGED claims
        ELSE LET n == [r.claim EXCEPT !.rv = s.rv + 1]
             IN /\ claims' = (claims \ {s}) \cup {n}
                /\ Commit(AfterEnsureOk(r, n), r, queue)
  /\ UNCHANGED <<clusters, addresses, pools, classes, req, h, hResp>>

\* client.Update of the adopted claim: rejected when the claim is gone or
\* its resourceVersion has moved on; the status subresource is not written
ensureClaim_Adopt ==
  /\ r.pc = "adopt"
  /\ LET s == GetClaim(r.claim.name)
     IN IF ~s.exists
          THEN /\ Commit(AfterEnsureErr(r, "adopt IPAddressClaim: not found"),
                         r, queue)
               /\ UNCHANGED claims
        ELSE IF s.rv # r.claim.rv
          THEN /\ Commit(AfterEnsureErr(r, "adopt IPAddressClaim: conflict"),
                         r, queue)
               /\ UNCHANGED claims
        ELSE LET n == [s EXCEPT !.owners = r.claim.owners, !.rv = s.rv + 1]
             IN /\ claims' = (claims \ {s}) \cup {n}
                /\ Commit(AfterEnsureOk(r, n), r, queue)
  /\ UNCHANGED <<clusters, addresses, pools, classes, req, h, hResp>>

\* a variant that labels every claim with the control-plane role
ensureClaim_FindPool_Mut ==
  /\ r.pc = "findpool"
  /\ LET ps == findPool(r.obj.class, r.role)
     IN IF ps = {}
          THEN Commit(AfterEnsureErr(r, "no matching ip pool"), r, queue)
          ELSE \E p \in ps :
                 Commit(Goto([r EXCEPT !.pc = "create",
                     !.claim = [NoClaim EXCEPT
                        !.exists = TRUE,
                        !.namespace = Namespace,
                        !.name = ClaimName(r.role, r.t),
                        !.role = controlPlaneRole,
                        !.pool = p,
                        !.owners = <<NewControllerRef(r.t, r.obj)>>,
                        !.by = "reconciler", !.for = r.t]]),
                   r, queue)
  /\ UNCHANGED <<clusters, claims, addresses, pools, classes, req, h, hResp>>

\* ensureClaim lines 190-214: findPool and the construction of the claim
ensureClaim_FindPool ==
  /\ r.pc = "findpool"
  /\ LET ps == findPool(r.obj.class, r.role)
     IN IF ps = {}
          THEN Commit(AfterEnsureErr(r, "no matching ip pool"), r, queue)
          ELSE \E p \in ps :
                 Commit(Goto([r EXCEPT !.pc = "create",
                     !.claim = [NoClaim EXCEPT
                        !.exists = TRUE,
                        !.namespace = Namespace,
                        !.name = ClaimName(r.role, r.t),
                        !.role = r.role,
                        !.pool = p,
                        !.owners = <<NewControllerRef(r.t, r.obj)>>,
                        !.by = "reconciler", !.for = r.t]]),
                   r, queue)
  /\ UNCHANGED <<clusters, claims, addresses, pools, classes, req, h, hResp>>

\* client.Create: atomic per name; a taken name is AlreadyExists
StoreCreateClaim(c) == claims' = claims \cup {[c EXCEPT !.rv = 1]}

ensureClaim_Create ==
  /\ r.pc = "create"
  /\ IF GetClaim(r.claim.name).exists
       THEN /\ Commit(AfterEnsureErr(r, "create IPAddressClaim: already exists"),
                      r, queue)
            /\ UNCHANGED claims
       ELSE /\ StoreCreateClaim(r.claim)
            /\ Commit(AfterEnsureOk(r, [r.claim EXCEPT !.rv = 1]), r, queue)
  /\ UNCHANGED <<clusters, addresses, pools, classes, req, h, hResp>>

\* a variant without the not-found check: a missing record is an error
resolveIPAddress_Get_Mut ==
  /\ r.pc = "getaddr"
  /\ LET ip == GetAddress(r.claim.addressRef)
         o == IF ~AddressExists(r.claim.addressRef)
                THEN Return("error", "get IPAddress")
              ELSE IF ip = "" THEN AfterPending(r)
              ELSE IF r.role = ingressRole
                THEN Goto([r EXCEPT !.pc = "ingpatch", !.ip = ip])
              ELSE Goto([r EXCEPT !.pc = "getclass", !.ip = ip])
     IN Commit(o, r, queue)
  /\ UNCHANGED <<clusters, claims, addresses, pools, classes, req, h, hResp>>

\* resolveIPAddress lines 298-318: the Get of the IPAddress
resolveIPAddress_Get ==
  /\ r.pc = "getaddr"
  /\ LET ip == GetAddress(r.claim.addressRef)
         o == IF ip = "" THEN AfterPending(r)
              ELSE IF r.role = ingressRole
                THEN Goto([r EXCEPT !.pc = "ingpatch", !.ip = ip])
              ELSE Goto([r EXCEPT !.pc = "getclass", !.ip = ip])
     IN Commit(o, r, queue)
  /\ UNCHANGED <<clusters, claims, addresses, pools, classes, req, h, hResp>>

\* ensureIngressVIP lines 434-450: annotation and label, one merge patch
ensureIngressVIP_Patch ==
  /\ r.pc = "ingpatch"
  /\ LET s == clusters[r.t]
         m == [r.obj EXCEPT !.ingVip = r.ip, !.ingLabel = r.ip]
         n == MergePatch(s, r.obj, m)
     IN IF ~s.exists
          THEN /\ Commit(Return("error", "patch cluster ingress: not found"),
                         r, queue)
               /\ UNCHANGED clusters
          ELSE /\ clusters' = [clusters EXCEPT ![r.t] = n]
               /\ Commit(ControlPlaneStep([r EXCEPT !.obj = n]), r,
                         queue \cup {r.t})
  /\ UNCHANGED <<claims, addresses, pools, classes, req, h, hResp>>

\* a variant that goes on to the patch, without a class, when the lookup fails
patchClusterEndpoint_GetClass_Mut ==
  /\ r.pc = "getclass"
  /\ LET cc == getClusterClass(r.obj.class, Namespace)
     IN Commit(Goto([r EXCEPT !.pc = "cppatch", !.cls = cc]), r, queue)
  /\ UNCHANGED <<clusters, claims, addresses, pools, classes, req, h, hResp>>

\* patchClusterEndpoint lines 322-336: snapshot, then the class lookup
patchClusterEndpoint_GetClass ==
  /\ r.pc = "getclass"
  /\ LET cc == getClusterClass(r.obj.class, Namespace)
         o == IF ~cc.exists
                THEN Return("error", "get ClusterClass (tried both)")
              ELSE Goto([r EXCEPT !.pc = "cppatch", !.cls = cc])
     IN Commit(o, r, queue)
  /\ UNCHANGED <<clusters, claims, addresses, pools, classes, req, h, hResp>>

\* patchClusterEndpoint lines 325-366: mutate and send the merge patch
patchClusterEndpoint_Patch ==
  /\ r.pc = "cppatch"
  /\ LET s == clusters[r.t]
         m == MutateCluster(r.obj, r.ip, r.cls)
         n == MergePatch(s, r.obj, m)
     IN IF ~s.exists
          THEN /\ Commit(Return("error", "patch cluster endpoint: not found"),
                         r, queue)
               /\ UNCHANGED clusters
          ELSE /\ clusters' = [clusters EXCEPT ![r.t] = n]
               /\ Commit(Return("ok", ""), r, queue \cup {r.t})
  /\ UNCHANGED <<claims, addresses, pools, classes, req, h, hResp>>

(***************************************************************************)
(* Runtime hook: GeneratePatches.  The first pass walks the Cluster items   *)
(* of the request one after the other; h.rest holds the items still to be  *)
(* processed, h.items the patches collected so far and h.elapsed the time  *)
(* the request has spent waiting between polls, in polling intervals.      *)
(***************************************************************************)
\* ipAllocationTimeout = 25 * time.Second; the model divides it into MaxPolls
\* polling intervals
ipAllocationTimeout == 25

\* TimeoutSeconds of the generate-patches handler in the discovery response
TimeoutSeconds == 30

\* allocated is the map allocatedIPs of GeneratePatches (cluster name -> IP),
\* infra the items of the request that are not Cluster objects
HIdle == [pc |-> "idle", t |-> "", obj |-> NoCluster, pool |-> "",
          claim |-> NoClaim, polls |-> 0, persisted |-> FALSE,
          rest |-> <<>>, items |-> <<>>, elapsed |-> 0,
          allocated |-> <<>>, infra |-> <<>>]

\* infra holds the patches of the response for items other than the Cluster
NoResp == [status |-> "none", message |-> "", items |-> <<>>, t |-> "",
           obj |-> NoCluster, persisted |-> FALSE, infra |-> <<>>]

NoValue == [host |-> "", port |-> 0, name |-> "", value |-> <<"", "">>]

\* addClusterPatch(response, uid, "/spec/controlPlaneEndpoint", {host, port})
addClusterPatch(host) ==
  [op |-> "add", path |-> "/spec/controlPlaneEndpoint", index |-> 0,
   value |-> [NoValue EXCEPT !.host = host, !.port = defaultPort]]

\* addClusterVariablePatch(response, uid, cluster, "clusterVip", ip)
addClusterVariablePatch(obj, varName, value) ==
  LET i == VarIndex(obj.vars, varName)
  IN IF i > 0
       THEN [op |-> "replace", path |-> "/spec/topology/variables/%d/value",
             index |-> i - 1, value |-> [NoValue EXCEPT !.value = Quote(value)]]
       ELSE [op |-> "add", path |-> "/spec/topology/variables/-", index |-> 0,
             value |-> [NoValue EXCEPT !.name = varName,
                                       !.value = Quote(value)]]

\* a JSON patch operation of the response applied to the Cluster of the request
ApplyOp(obj, p) ==
  IF p.path = "/spec/controlPlaneEndpoint"
    THEN [obj EXCEPT !.host = p.value.host, !.port = p.value.port]
  ELSE IF p.path = "/spec/topology/variables/-"
    THEN [obj EXCEPT !.vars =
            Append(obj.vars, [name |-> p.value.name, value |-> p.value.value])]
  ELSE [obj EXCEPT !.vars[p.index + 1].value = p.value.value]

RECURSIVE ApplyPatches(_, _)
ApplyPatches(obj, items) ==
  IF items = <<>> THEN obj
  ELSE ApplyPatches(ApplyOp(obj, Head(items)), Tail(items))

\* getVariableValueFromList(request.Variables, varName)
getVariableValueFromList(variables, varName) ==
  IF \E i \in 1..Len(variables) :
        variables[i].name = varName /\ UnquoteOrEmpty(variables[i].value) # ""
    THEN LET i == CHOOSE k \in 1..Len(variables) :
                    /\ variables[k].name = varName
                    /\ UnquoteOrEmpty(variables[k].value) # ""
                    /\ \A j \in 1..(k - 1) :
                         ~(variables[j].name = varName
                           /\ UnquoteOrEmpty(variables[j].value) # "")
         IN UnquoteOrEmpty(variables[i].value)
    ELSE ""

\* the hook's pool resolver: a server-side label selector, exact equality
hookFindPool(className, role) ==
  {p.name : p \in {q \in pools :
      /\ clusterClassLabel \in DOMAIN q.labels
      /\ q.labels[clusterClassLabel] = className
      /\ roleLabel \in DOMAIN q.labels
      /\ q.labels[roleLabel] = <<role>>}}

\* a variant in which the hook names its claim on its own scheme
hookClaimName_Mut(t) == <<"vip-", t>>

\* claimName := fmt.Sprintf("vip-cp-%s", cluster.Name) in GeneratePatches
hookClaimName(t) == ClaimName(controlPlaneRole, t)

\* isInfrastructureCluster(typeMeta) for the group of the apiVersion and the
\* kind, both as sequences of words: the group is
\* infrastructure.cluster.x-k8s.io or longer than, and starting with,
\* "infrastructure", and the kind ends with "Cluster"
InfrastructureGroup == <<"infrastructure", ".cluster.x-k8s.io">>

isInfrastructureCluster(item) ==
  /\ item.group # <<>> /\ item.kind # <<>>
  /\ \/ item.group = InfrastructureGroup
     \/ Len(item.group) > 1 /\ item.group[1] = "infrastructure"
  /\ item.kind[Len(item.kind)] = "Cluster"

\* extractClusterName(obj.GetName()): the name as it is
extractClusterName(infraClusterName) == infraClusterName

\* addGenericPatch(response, uid, "/spec/controlPlaneEndpoint", {host, port})
addGenericPatch(uid, host) ==
  [uid |-> uid, op |-> "replace", path |-> "/spec/controlPlaneEndpoint",
   value |-> [NoValue EXCEPT !.host = host, !.port = defaultPort]]

\* a variant that patches an item whatever its spec holds
InfraPatch_Mut(item, allocated) ==
  LET clusterName == IF item.holder # "" THEN item.holder
                     ELSE extractClusterName(item.name)
  IN IF item.kind = <<"Cluster">> \/ ~isInfrastructureCluster(item) THEN <<>>
     ELSE IF clusterName = "" THEN <<>>
     ELSE IF clusterName \notin DOMAIN allocated THEN <<>>
     ELSE <<addGenericPatch(item.uid, allocated[clusterName])>>

\* GeneratePatches lines 174-238: the patches of the second pass for one item
InfraPatch(item, allocated) ==
  LET clusterName == IF item.holder # "" THEN item.holder
                     ELSE extractClusterName(item.name)
  IN IF item.kind = <<"Cluster">> \/ ~isInfrastructureCluster(item) THEN <<>>
     ELSE IF clusterName = "" THEN <<>>
     ELSE IF clusterName \notin DOMAIN allocated THEN <<>>
     ELSE IF ~item.hasSpec THEN <<>>
     ELSE IF item.hasEndpoint
       THEN <<addGenericPatch(item.uid, allocated[clusterName])>>
     ELSE <<>>

\* GeneratePatches lines 173-240: the second pass over request.Items
RECURSIVE SecondPass(_, _)
SecondPass(infra, allocated) ==
  IF infra = <<>> THEN <<>>
  ELSE InfraPatch(Head(infra), allocated) \o SecondPass(Tail(infra), allocated)

\* allocatedIPs[cluster.Name] = ip
Allocated(cur, ip) ==
  [cur EXCEPT !.allocated = (cur.t :> ip) @@ cur.allocated]

\* the end of the processing of one Cluster item: a failure ends the
\* request (response.SetStatus(Failure); return), a success goes on to the
\* next Cluster item of the loop, and after the last item GeneratePatches
\* runs its second pass and returns the patches collected
ItemDone(cur, status, message, items) ==
  IF status = "Success" /\ cur.rest # <<>>
    THEN /\ h' = [HIdle EXCEPT !.pc = "item", !.rest = cur.rest,
                               !.items = cur.items \o items,
                               !.elapsed = cur.elapsed,
                               !.allocated = cur.allocated,
                               !.infra = cur.infra]
         /\ hResp' = NoResp
    ELSE /\ hResp' = [status |-> status, message |-> message,
                      items |-> cur.items \o items,
                      t |-> cur.t, obj |-> cur.obj, persisted |-> cur.persisted,
                      infra |-> IF status = "Success"
                                  THEN SecondPass(cur.infra, cur.allocated)
                                  ELSE <<>>]
         /\ h' = HIdle

Respond(status, message, items) == ItemDone(h, status, message, items)

\* one more poll of waitForIPAllocation after the polling interval, or its
\* timeout
Retry(cur) ==
  IF cur.polls + 1 >= MaxPolls
    THEN Respond("Failure", "timeout waiting for IP allocation", <<>>)
    ELSE /\ h' = [cur EXCEPT !.pc = "pollclaim", !.polls = cur.polls + 1,
                             !.claim = NoClaim,
                             !.elapsed = cur.elapsed + 1]
         /\ UNCHANGED hResp

\* GeneratePatches lines 77-131: one Cluster item up to the pool lookup
StartItem(cur) ==
  LET existingVIP == getVariableValueFromList(cur.obj.vars, "clusterVip")
  IN IF cur.obj.class = <<>>
       THEN ItemDone(cur, "Success", "", <<>>)
     ELSE IF cur.obj.host # ""
       THEN ItemDone(Allocated(cur, cur.obj.host), "Success", "", <<>>)
     ELSE IF existingVIP # ""
       THEN ItemDone(Allocated(cur, existingVIP), "Success", "",
                     <<addClusterPatch(existingVIP)>>)
     ELSE /\ h' = [cur EXCEPT !.pc = "findpool"]
          /\ hResp' = NoResp

\* a request with one Cluster item arrives
GeneratePatches_Start ==
  /\ h.pc = "idle"
  /\ \E t \in Clusters :
       LET persisted == clusters[t].exists
           obj == IF persisted THEN clusters[t] ELSE req[t]
       IN StartItem([HIdle EXCEPT !.t = t, !.obj = obj,
                                  !.persisted = persisted])
  /\ UNCHANGED <<clusters, claims, addresses, pools, classes, req, queue, r,
                 last>>

\* the loop over request.Items comes to the next Cluster item
GeneratePatches_Item ==
  /\ h.pc = "item"
  /\ LET t == Head(h.rest)
     IN StartItem([HIdle EXCEPT !.t = t, !.obj = req[t],
                                !.rest = Tail(h.rest), !.items = h.items,
                                !.elapsed = h.elapsed,
                                !.allocated = h.allocated,
                                !.infra = h.infra])
  /\ UNCHANGED <<clusters, claims, addresses, pools, classes, req, queue, r,
                 last>>

\* GeneratePatches lines 133-146: findPool
GeneratePatches_FindPool ==
  /\ h.pc = "findpool"
  /\ LET ps == hookFindPool(h.obj.class, controlPlaneRole)
     IN IF ps = {}
          THEN Respond("Success", "", <<>>)
          ELSE \E p \in ps :
                 /\ h' = [h EXCEPT !.pc = "getclaim", !.pool = p]
                 /\ UNCHANGED hResp
  /\ UNCHANGED <<clusters, claims, addresses, pools, classes, req, queue, r,
                 last>>

\* preallocateIP lines 334-345: Get of the claim; an existing claim goes
\* straight into the first poll of waitForIPAllocation
preallocateIP_Get ==
  /\ h.pc = "getclaim"
  /\ LET c == GetClaim(hookClaimName(h.t))
     IN IF ~c.exists
          THEN /\ h' = [h EXCEPT !.pc = "create"]
               /\ UNCHANGED hResp
        ELSE IF c.addressRef = NoName
          THEN Retry(h)
        ELSE /\ h' = [h EXCEPT !.pc = "polladdr", !.claim = c]
             /\ UNCHANGED hResp
  /\ UNCHANGED <<clusters, claims, addresses, pools, classes, req, queue, r,
                 last>>

\* preallocateIP lines 347-378: Create without owner-reference
preallocateIP_Create ==
  /\ h.pc = "create"
  /\ LET name == hookClaimName(h.t)
         c == [NoClaim EXCEPT !.exists = TRUE, !.namespace = Namespace,
                 !.name = name,
                 !.role = controlPlaneRole, !.clusterName = h.t,
                 !.pool = h.pool, !.by = "hook", !.for = h.t]
     IN /\ IF GetClaim(name).exists
             THEN UNCHANGED claims
             ELSE StoreCreateClaim(c)
        /\ h' = [h EXCEPT !.pc = "pollclaim"]
        /\ UNCHANGED hResp
  /\ UNCHANGED <<clusters, addresses, pools, classes, req, queue, r, last>>

\* waitForIPAllocation lines 388-408: Get of the claim in one poll
waitForIPAllocation_GetClaim ==
  /\ h.pc = "pollclaim"
  /\ LET c == GetClaim(hookClaimName(h.t))
     IN IF ~c.exists \/ c.addressRef = NoName
          THEN Retry(h)
          ELSE /\ h' = [h EXCEPT !.pc = "polladdr", !.claim = c]
               /\ UNCHANGED hResp
  /\ UNCHANGED <<clusters, claims, addresses, pools, classes, req, queue, r,
                 last>>

\* getIPFromClaim lines 434-447 and GeneratePatches lines 158-170
getIPFromClaim_Get ==
  /\ h.pc = "polladdr"
  /\ LET ip == GetAddress(h.claim.addressRef)
     IN IF ip = ""
          THEN Retry(h)
          ELSE ItemDone(Allocated(h, ip), "Success", "",
                 <<addClusterPatch(ip),
                   addClusterVariablePatch(h.obj, "clusterVip", ip)>>)
  /\ UNCHANGED <<clusters, claims, addresses, pools, classes, req, queue, r,
                 last>>

\* waitForIPAllocation lines 392-398: the Get of the claim fails for a reason
\* other than not-found; the poll returns the error and GeneratePatches
\* answers Failure (lines 150-156)
waitForIPAllocation_GetClaimFails ==
  /\ h.pc = "pollclaim"
  /\ Respond("Failure", "error waiting for IP allocation", <<>>)
  /\ UNCHANGED <<clusters, claims, addresses, pools, classes, req, queue, r,
                 last>>

\* getIPFromClaim lines 438-440 and waitForIPAllocation lines 401-407: the
\* Get of the IPAddress fails for a reason other than not-found;
\* getIPFromClaim returns an error as for a missing record and the poll
\* goes on
getIPFromClaim_GetFails ==
  /\ h.pc = "polladdr"
  /\ Retry(h)
  /\ UNCHANGED <<clusters, claims, addresses, pools, classes, req, queue, r,
                 last>>

(***************************************************************************)
(* Environment: the user, the orchestration API and the pool manager       *)
(***************************************************************************)
\* the number of incarnations of a Cluster of one name
MaxIncarnations == 2

\* the Cluster is persisted: as the user wrote it, or as the hook's
\* successful response for that request patched it; every incarnation of a
\* name gets a UID of its own
PersistCluster ==
  \E t \in Clusters :
    /\ ~clusters[t].exists
    /\ clusters[t].uid < MaxIncarnations
    /\ \E viaHook \in BOOLEAN :
         /\ viaHook =>
              /\ h.pc = "idle"
              /\ hResp.status = "Success" /\ hResp.t = t /\ ~hResp.persisted
         /\ clusters' = [clusters EXCEPT ![t] =
              [(IF viaHook THEN ApplyPatches(req[t], hResp.items) ELSE req[t])
                 EXCEPT !.exists = TRUE, !.uid = clusters[t].uid + 1]]
    /\ queue' = queue \cup {t}
    /\ UNCHANGED <<claims, addresses, pools, classes, req, r, last, h, hResp>>

\* the user sets the endpoint host by hand on a persisted Cluster
UserSetHost ==
  \E t \in Clusters :
    /\ clusters[t].exists
    /\ clusters[t].host = ""
    /\ clusters' = [clusters EXCEPT ![t].host = ManualHost]
    /\ queue' = queue \cup {t}
    /\ UNCHANGED <<claims, addresses, pools, classes, req, r, last, h, hResp>>

\* the informer's periodic resync re-delivers a persisted Cluster
Resync ==
  \E t \in Clusters :
    /\ clusters[t].exists
    /\ t \notin queue
    /\ queue' = queue \cup {t}
    /\ UNCHANGED <<clusters, claims, addresses, pools, classes, req, r, last,
                   h, hResp>>

\* the pool manager creates the IPAddress record of a claim
IPAM_CreateAddress ==
  \E c \in claims : \E a \in Addrs :
    /\ ~AddressExists(c.name)
    /\ \A x \in addresses : x.address # a
    /\ addresses' = addresses \cup {[name |-> c.name, address |-> a]}
    /\ UNCHANGED <<clusters, claims, pools, classes, req, queue, r, last, h,
                   hResp>>

\* the pool manager writes status.addressRef of a claim
IPAM_SetAddressRef ==
  \E c \in claims :
    /\ c.addressRef = NoName
    /\ claims' = (claims \ {c}) \cup
                   {[c EXCEPT !.addressRef = c.name, !.rv = c.rv + 1]}
    /\ UNCHANGED <<clusters, addresses, pools, classes, req, queue, r, last, h,
                   hResp>>

(***************************************************************************)
(* Initial states                                                          *)
(***************************************************************************)
Pool(name, classValue, roleValue) ==
  [name |-> name,
   labels |-> (clusterClassLabel :> classValue) @@ (roleLabel :> roleValue)]

PoolConfigs ==
  { {},
    {Pool("cp-pool", ClassX, <<controlPlaneRole>>)},
    {Pool("shared-pool", <<"w", ",", " ", "x">>,
          <<controlPlaneRole, ",", ingressRole>>)},
    {Pool("cp-pool", ClassX, <<controlPlaneRole>>),
     Pool("ingress-pool", ClassX, <<ingressRole>>)} }

Class(ns, variables) ==
  [exists |-> TRUE, name |-> ClassX, namespace |-> ns, variables |-> variables]

ClassConfigs ==
  { {Class(Namespace, {"someOtherVariable"})},
    {Class(Namespace, {"someOtherVariable", "clusterVip"})} }

Var(name, value) == [name |-> name, value |-> value]

VarConfigs ==
  { <<Var("other", <<"json", "1">>)>>,
    <<Var("clusterVip", Quote("")), Var("other", <<"json", "1">>)>>,
    <<Var("other", <<"json", "1">>), Var("clusterVip", Quote("10.0.0.50"))>> }

ReqObjs ==
  { [NoCluster EXCEPT !.class = ClassX, !.host = hst, !.port = prt,
                      !.vars = vs, !.ingEnabled = ie] :
      hst \in {"", ManualHost}, prt \in {0, UserPort}, vs \in VarConfigs,
      ie \in {"", "false"} }

Init ==
  /\ clusters = [t \in Clusters |-> NoCluster]
  /\ claims = {}
  /\ addresses = {}
  /\ pools \in PoolConfigs
  /\ classes \in ClassConfigs
  /\ req \in [Clusters -> ReqObjs]
  /\ queue = {}
  /\ r = Idle
  /\ last = NoLast
  /\ h = HIdle
  /\ hResp = NoResp

Next ==
  \/ Reconcile_Get
  \/ ensureClaim_Get
  \/ ensureClaim_Adopt
  \/ ensureClaim_FindPool
  \/ ensureClaim_Create
  \/ resolveIPAddress_Get
  \/ ensureIngressVIP_Patch
  \/ patchClusterEndpoint_GetClass
  \/ patchClusterEndpoint_Patch
  \/ GeneratePatches_Start
  \/ GeneratePatches_FindPool
  \/ preallocateIP_Get
  \/ preallocateIP_Create
  \/ waitForIPAllocation_GetClaim
  \/ getIPFromClaim_Get
  \/ PersistCluster
  \/ UserSetHost
  \/ Resync
  \/ IPAM_CreateAddress
  \/ IPAM_SetAddressRef

Spec == Init /\ [][Next]_vars

TypeOK ==
  /\ r.pc \in {"idle", "getclaim", "adopt", "findpool", "create", "getaddr",
               "ingpatch", "getclass", "cppatch"}
  /\ h.pc \in {"idle", "item", "findpool", "getclaim", "create", "pollclaim",
               "polladdr"}
  /\ queue \subseteq Clusters

(***************************************************************************)
(* A second specification for the liveness properties: one request, two    *)
(* pool configurations, the reconciler and the resync scheduled fairly.    *)
(* controller-runtime runs a queued Reconcile to its end, requeues on an   *)
(* error or a RequeueAfter, and the informer resyncs periodically.         *)
(***************************************************************************)
InitFair ==
  /\ Init
  /\ pools \in { {Pool("cp-pool", ClassX, <<controlPlaneRole>>)},
                 {Pool("cp-pool", ClassX, <<controlPlaneRole>>),
                  Pool("ingress-pool", ClassX, <<ingressRole>>)} }
  /\ classes = {Class(Namespace, {"someOtherVariable", "clusterVip"})}
  /\ \A t \in Clusters :
       req[t] = [NoCluster EXCEPT !.class = ClassX,
                                  !.vars = <<Var("other", <<"json", "1">>)>>]

ReconcilerNext ==
  \/ Reconcile_Get
  \/ ensureClaim_Get
  \/ ensureClaim_Adopt
  \/ ensureClaim_FindPool
  \/ ensureClaim_Create
  \/ resolveIPAddress_Get
  \/ ensureIngressVIP_Patch
  \/ patchClusterEndpoint_GetClass
  \/ patchClusterEndpoint_Patch

SpecFair ==
  /\ InitFair
  /\ [][Next]_vars
  /\ WF_vars(ReconcilerNext)
  /\ WF_vars(Resync)

(***************************************************************************)
(* A third specification for the pool resolver: the pools are drawn from a *)
(* universe of label values (lists, blanks, missing labels), one or two    *)
(* pools at a time, and the reconciler alone resolves them.                *)
(***************************************************************************)
ClassB == <<"b">>
ClassC == <<"c">>

PoolUniverse ==
  { Pool("p-list", <<"a", ",", "b", ",", "c">>,
         <<controlPlaneRole, ",", ingressRole>>),
    Pool("p-spaced", <<"a", ",", " ", "b", " ">>, <<" ", controlPlaneRole>>),
    Pool("p-exact", ClassB, <<controlPlaneRole>>),
    Pool("p-a-only", <<"a", ",", "a">>, <<controlPlaneRole, ",", ingressRole>>),
    Pool("p-longer", <<"bb">>, <<controlPlaneRole>>),
    Pool("p-two-words", <<"b", " ", "b">>, <<controlPlaneRole>>),
    Pool("p-other-role", ClassB, <<"other">>),
    Pool("p-empty-class", <<>>, <<ingressRole>>),
    [name |-> "p-no-role", labels |-> (clusterClassLabel :> ClassB)],
    [name |-> "p-no-class", labels |-> (roleLabel :> <<controlPlaneRole>>)] }

InitPool ==
  /\ clusters = [t \in Clusters |-> NoCluster]
  /\ claims = {}
  /\ addresses = {}
  /\ pools \in {{p, q} : p \in PoolUniverse, q \in PoolUniverse}
  /\ classes = {Class(Namespace, {"someOtherVariable"})}
  /\ req \in [Clusters ->
               {[NoCluster EXCEPT !.class = c, !.ingEnabled = ie] :
                  c \in {ClassB, ClassC}, ie \in {"", "false"}}]
  /\ queue = {}
  /\ r = Idle
  /\ last = NoLast
  /\ h = HIdle
  /\ hResp = NoResp

NextPool ==
  \/ PersistCluster
  \/ Resync
  \/ Reconcile_Get
  \/ ensureClaim_Get
  \/ ensureClaim_FindPool
  \/ ensureClaim_Create

SpecPool == InitPool /\ [][NextPool]_vars

(***************************************************************************)
(* A fourth specification for the resolution of a bound claim: the         *)
(* control-plane claim exists before the Cluster is persisted, with its    *)
(* status pointing to an address record (as the hook and the pool manager  *)
(* leave it, or as a former reconcile left it); only the background path,  *)
(* the pool manager and the user are at work.                              *)
(***************************************************************************)
BoundClaim(t, owners, by) ==
  [NoClaim EXCEPT !.exists = TRUE, !.namespace = Namespace,
                  !.name = ClaimName(controlPlaneRole, t),
                  !.role = controlPlaneRole,
                  !.clusterName = IF by = "hook" THEN t ELSE "",
                  !.pool = "cp-pool", !.owners = owners,
                  !.addressRef = ClaimName(controlPlaneRole, t), !.rv = 2,
                  !.by = by, !.for = t]

InitBound ==
  /\ clusters = [t \in Clusters |-> NoCluster]
  /\ \E t \in Clusters :
       /\ claims \in {{BoundClaim(t, <<>>, "hook")},
                       {BoundClaim(t, <<[name |-> t, uid |-> 1]>>, "reconciler")}}
       /\ addresses \in
            {{[name |-> ClaimName(controlPlaneRole, t), address |-> a]} :
               a \in {"", "10.0.0.15"}}
  /\ pools \in { {Pool("cp-pool", ClassX, <<controlPlaneRole>>)},
                  {Pool("cp-pool", ClassX, <<controlPlaneRole>>),
                   Pool("ingress-pool", ClassX, <<ingressRole>>)} }
  /\ classes = {Class(Namespace, {"someOtherVariable", "clusterVip"})}
  /\ req \in [Clusters ->
               {[NoCluster EXCEPT !.class = ClassX, !.host = hst, !.port = prt,
                                  !.vars = <<Var("other", <<"json", "1">>)>>,
                                  !.ingEnabled = ie] :
                  hst \in {"", ManualHost}, prt \in {0, UserPort},
                  ie \in {"", "false"}}]
  /\ queue = {}
  /\ r = Idle
  /\ last = NoLast
  /\ h = HIdle
  /\ hResp = NoResp

NextBackground ==
  \/ ReconcilerNext
  \/ PersistCluster
  \/ UserSetHost
  \/ Resync
  \/ IPAM_CreateAddress
  \/ IPAM_SetAddressRef

SpecBound == InitBound /\ [][NextBackground]_vars

(***************************************************************************)
(* A fifth specification in which the reads of the hook's polling loop may *)
(* fail with an API error other than not-found.                            *)
(***************************************************************************)
NextHookFaulty ==
  \/ Next
  \/ waitForIPAllocation_GetClaimFails
  \/ getIPFromClaim_GetFails

SpecHookFaulty == InitFair /\ [][NextHookFaulty]_vars

(***************************************************************************)
(* A sixth specification for the duration of one hook request: the request *)
(* carries two Cluster items, none of them persisted yet, and the pool     *)
(* manager binds their claims while the hook polls.                        *)
(***************************************************************************)
ItemClusters == <<"c1", "c2">>

InitItems ==
  /\ clusters = [t \in {"c1", "c2"} |-> NoCluster]
  /\ claims = {}
  /\ addresses = {}
  /\ pools \in { {}, {Pool("cp-pool", ClassX, <<controlPlaneRole>>)} }
  /\ classes = {Class(Namespace, {"someOtherVariable", "clusterVip"})}
  /\ req \in [{"c1", "c2"} ->
               {[NoCluster EXCEPT !.class = ClassX, !.host = hst,
                                  !.vars = <<Var("other", <<"json", "1">>)>>] :
                  hst \in {"", ManualHost}}]
  /\ queue = {}
  /\ r = Idle
  /\ last = NoLast
  /\ h = [HIdle EXCEPT !.pc = "item", !.rest = ItemClusters]
  /\ hResp = NoResp

NextItems ==
  \/ GeneratePatches_Item
  \/ GeneratePatches_FindPool
  \/ preallocateIP_Get
  \/ preallocateIP_Create
  \/ waitForIPAllocation_GetClaim
  \/ getIPFromClaim_Get
  \/ IPAM_CreateAddress
  \/ IPAM_SetAddressRef

SpecItems == InitItems /\ [][NextItems]_vars

(***************************************************************************)
(* A seventh specification for the frame of the reconciler's patches: next *)
(* to the background path another writer edits the persisted Cluster, a    *)
(* topology variable or an annotation, at any moment.                      *)
(***************************************************************************)
EditedValue == <<"json", "2">>

\* another writer changes the value of a topology variable other than
\* clusterVip
UserEditVariable ==
  \E t \in Clusters : \E i \in 1..Len(clusters[t].vars) :
    /\ clusters[t].exists
    /\ clusters[t].vars[i].name # "clusterVip"
    /\ clusters[t].vars[i].value # EditedValue
    /\ clusters' = [clusters EXCEPT ![t].vars[i].value = EditedValue]
    /\ queue' = queue \cup {t}
    /\ UNCHANGED <<claims, addresses, pools, classes, req, r, last, h, hResp>>

\* another writer sets the annotation ingress-enabled to "false"
UserSetAnnotation ==
  \E t \in Clusters :
    /\ clusters[t].exists
    /\ clusters[t].ingEnabled = ""
    /\ clusters' = [clusters EXCEPT ![t].ingEnabled = "false"]
    /\ queue' = queue \cup {t}
    /\ UNCHANGED <<claims, addresses, pools, classes, req, r, last, h, hResp>>

InitEdit ==
  /\ clusters = [t \in Clusters |-> NoCluster]
  /\ \E t \in Clusters :
       /\ claims = {BoundClaim(t, <<>>, "hook")}
       /\ addresses = {[name |-> ClaimName(controlPlaneRole, t),
                        address |-> "10.0.0.15"]}
  /\ pools \in { {Pool("cp-pool", ClassX, <<controlPlaneRole>>)},
                  {Pool("cp-pool", ClassX, <<controlPlaneRole>>),
                   Pool("ingress-pool", ClassX, <<ingressRole>>)} }
  /\ classes \in ClassConfigs
  /\ req \in [Clusters ->
               {[NoCluster EXCEPT !.class = ClassX, !.port = prt,
                                  !.vars = <<Var("other", <<"json", "1">>)>>,
                                  !.ingEnabled = ie] :
                  prt \in {0, UserPort}, ie \in {"", "false"}}]
  /\ queue = {}
  /\ r = Idle
  /\ last = NoLast
  /\ h = HIdle
  /\ hResp = NoResp

NextEdit ==
  \/ NextBackground
  \/ UserEditVariable
  \/ UserSetAnnotation

SpecEdit == InitEdit /\ [][NextEdit]_vars

(***************************************************************************)
(* An eighth specification for the deletion of the target: the Cluster is  *)
(* persisted, with or without the claim the hook made for it before, the   *)
(* user may delete it at any moment, and the garbage collector of the      *)
(* orchestration API removes the dependents of a deleted owner.  The       *)
(* reconciler, the resync and the garbage collector are scheduled fairly.  *)
(***************************************************************************)
\* the user deletes the Cluster; its identity stays behind for the garbage
\* collector to compare owner-references with
UserDeleteCluster ==
  \E t \in Clusters :
    /\ clusters[t].exists
    /\ clusters' = [clusters EXCEPT ![t].exists = FALSE]
    /\ queue' = queue \cup {t}
    /\ UNCHANGED <<claims, addresses, pools, classes, req, r, last, h, hResp>>

\* owner-reference cascade: a claim all of whose owners are gone is deleted;
\* a claim without owner-reference has no owner to follow
GC_DeleteClaim ==
  \E c \in claims :
    /\ Len(c.owners) > 0
    /\ \A i \in 1..Len(c.owners) :
         ~(/\ c.owners[i].name \in Clusters
           /\ clusters[c.owners[i].name].exists
           /\ clusters[c.owners[i].name].uid = c.owners[i].uid)
    /\ claims' = claims \ {c}
    /\ UNCHANGED <<clusters, addresses, pools, classes, req, queue, r, last, h,
                   hResp>>

\* the pool manager releases the address record of a claim that is gone
IPAM_ReleaseAddress ==
  \E a \in addresses :
    /\ ~GetClaim(a.name).exists
    /\ addresses' = addresses \ {a}
    /\ UNCHANGED <<clusters, claims, pools, classes, req, queue, r, last, h,
                   hResp>>

InitDelete ==
  /\ pools \in { {Pool("cp-pool", ClassX, <<controlPlaneRole>>)},
                  {Pool("cp-pool", ClassX, <<controlPlaneRole>>),
                   Pool("ingress-pool", ClassX, <<ingressRole>>)} }
  /\ classes = {Class(Namespace, {"someOtherVariable", "clusterVip"})}
  /\ req \in [Clusters ->
               {[NoCluster EXCEPT !.class = ClassX,
                                  !.vars = <<Var("other", <<"json", "1">>)>>,
                                  !.ingEnabled = ie] : ie \in {"", "false"}}]
  /\ clusters = [t \in Clusters |->
                   [req[t] EXCEPT !.exists = TRUE, !.uid = 1]]
  /\ \E t \in Clusters :
       \/ claims = {} /\ addresses = {}
       \/ /\ claims = {BoundClaim(t, <<>>, "hook")}
          /\ addresses = {[name |-> ClaimName(controlPlaneRole, t),
                           address |-> "10.0.0.15"]}
  /\ queue = Clusters
  /\ r = Idle
  /\ last = NoLast
  /\ h = HIdle
  /\ hResp = NoResp

NextDelete ==
  \/ ReconcilerNext
  \/ Resync
  \/ IPAM_CreateAddress
  \/ IPAM_SetAddressRef
  \/ IPAM_ReleaseAddress
  \/ UserDeleteCluster
  \/ GC_DeleteClaim

SpecDelete ==
  /\ InitDelete
  /\ [][NextDelete]_vars
  /\ WF_vars(ReconcilerNext)
  /\ WF_vars(Resync)
  /\ WF_vars(GC_DeleteClaim)

(***************************************************************************)
(* A ninth specification for the liveness of the background path alone:    *)
(* no manual host and no hook at work, though a former hook request may    *)
(* have left its claim behind; the reconciler, the resync and the pool     *)
(* manager are scheduled fairly, so that every claim is eventually bound   *)
(* to a record with an address.                                            *)
(***************************************************************************)
\* an ingress address the user wrote into the annotation by hand
ManualIngressVip == "10.0.0.200"

InitLive ==
  /\ clusters = [t \in Clusters |-> NoCluster]
  /\ \E t \in Clusters :
       claims \in {{}, {[BoundClaim(t, <<>>, "hook")
                           EXCEPT !.addressRef = NoName, !.rv = 1]}}
  /\ addresses = {}
  /\ pools \in { {Pool("cp-pool", ClassX, <<controlPlaneRole>>)},
                  {Pool("cp-pool", ClassX, <<controlPlaneRole>>),
                   Pool("ingress-pool", ClassX, <<ingressRole>>)} }
  /\ classes \in ClassConfigs
  /\ req \in [Clusters ->
               {[NoCluster EXCEPT !.class = ClassX,
                                  !.vars = <<Var("other", <<"json", "1">>)>>,
                                  !.ingEnabled = ie, !.ingVip = iv] :
                  ie \in {"", "false", "False", "true"},
                  iv \in {"", ManualIngressVip}}]
  /\ queue = {}
  /\ r = Idle
  /\ last = NoLast
  /\ h = HIdle
  /\ hResp = NoResp

NextLive ==
  \/ ReconcilerNext
  \/ PersistCluster
  \/ Resync
  \/ IPAM_CreateAddress
  \/ IPAM_SetAddressRef

SpecLive ==
  /\ InitLive
  /\ [][NextLive]_vars
  /\ WF_vars(ReconcilerNext)
  /\ WF_vars(Resync)
  /\ WF_vars(IPAM_CreateAddress)
  /\ WF_vars(IPAM_SetAddressRef)

(***************************************************************************)
(* A tenth specification for the repair of the ingress annotation: the     *)
(* background path allocates both addresses, and the user may remove the   *)
(* ingress-vip annotation, or disable ingress by annotation, at any        *)
(* moment.  The reconciler and the resync are scheduled fairly.            *)
(***************************************************************************)
\* the user removes the annotation ingress-vip; the label stays
UserRemoveAnnotation ==
  \E t \in Clusters :
    /\ clusters[t].exists
    /\ clusters[t].ingVip # ""
    /\ clusters' = [clusters EXCEPT ![t].ingVip = ""]
    /\ queue' = queue \cup {t}
    /\ UNCHANGED <<claims, addresses, pools, classes, req, r, last, h, hResp>>

InitHeal ==
  /\ clusters = [t \in Clusters |-> NoCluster]
  /\ \E t \in Clusters :
       claims \in {{}, {[BoundClaim(t, <<>>, "hook")
                           EXCEPT !.addressRef = NoName, !.rv = 1]}}
  /\ addresses = {}
  /\ pools = {Pool("cp-pool", ClassX, <<controlPlaneRole>>),
              Pool("ingress-pool", ClassX, <<ingressRole>>)}
  /\ classes \in ClassConfigs
  /\ req \in [Clusters ->
               {[NoCluster EXCEPT !.class = ClassX,
                                  !.vars = <<Var("other", <<"json", "1">>)>>,
                                  !.ingEnabled = ie] : ie \in {"", "true"}}]
  /\ queue = {}
  /\ r = Idle
  /\ last = NoLast
  /\ h = HIdle
  /\ hResp = NoResp

NextHeal ==
  \/ NextLive
  \/ UserRemoveAnnotation
  \/ UserSetAnnotation

SpecHeal ==
  /\ InitHeal
  /\ [][NextHeal]_vars
  /\ WF_vars(ReconcilerNext)
  /\ WF_vars(Resync)

(***************************************************************************)
(* An eleventh specification for the class lookup: the classes are drawn   *)
(* from a universe with a class-scoped class, a class in the target's      *)
(* namespace and a class in another namespace, the control-plane claim is  *)
(* bound, and each of the two reads of getClusterClass may fail with an    *)
(* API error other than not-found.                                         *)
(***************************************************************************)
ClassUniverse ==
  { [exists |-> TRUE, name |-> ClassX, namespace |-> "",
     variables |-> {"clusterVip"}],
    [exists |-> TRUE, name |-> ClassX, namespace |-> Namespace,
     variables |-> {"someOtherVariable"}],
    [exists |-> TRUE, name |-> ClassX, namespace |-> "other-namespace",
     variables |-> {"clusterVip", "someOtherVariable"}],
    [exists |-> TRUE, name |-> ClassB, namespace |-> "",
     variables |-> {"clusterVip"}] }

\* getClusterClass lines 376-379 and 391: the class-scoped Get fails with an
\* error other than not-found; no second Get
getClusterClass_FirstGetFails ==
  /\ r.pc = "getclass"
  /\ Commit(Return("error", "get ClusterClass"), r, queue)
  /\ UNCHANGED <<clusters, claims, addresses, pools, classes, req, h, hResp>>

\* getClusterClass lines 382-386: the class-scoped Get was not-found and the
\* Get in the target's namespace fails with an error other than not-found
getClusterClass_SecondGetFails ==
  /\ r.pc = "getclass"
  /\ ~GetClass(r.obj.class, "").exists
  /\ Commit(Return("error", "get ClusterClass (tried both)"), r, queue)
  /\ UNCHANGED <<clusters, claims, addresses, pools, classes, req, h, hResp>>

InitClass ==
  /\ clusters = [t \in Clusters |-> NoCluster]
  /\ \E t \in Clusters :
       /\ claims = {BoundClaim(t, <<[name |-> t, uid |-> 1]>>, "reconciler")}
       /\ addresses = {[name |-> ClaimName(controlPlaneRole, t),
                        address |-> "10.0.0.15"]}
  /\ pools = {Pool("cp-pool", ClassX, <<controlPlaneRole>>)}
  /\ classes \in SUBSET ClassUniverse
  /\ req \in [Clusters ->
               {[NoCluster EXCEPT !.class = ClassX, !.port = prt, !.vars = vs,
                                  !.ingEnabled = "false"] :
                  prt \in {0, UserPort}, vs \in VarConfigs}]
  /\ queue = {}
  /\ r = Idle
  /\ last = NoLast
  /\ h = HIdle
  /\ hResp = NoResp

NextClass ==
  \/ PersistCluster
  \/ Resync
  \/ Reconcile_Get
  \/ ensureClaim_Get
  \/ resolveIPAddress_Get
  \/ patchClusterEndpoint_GetClass
  \/ patchClusterEndpoint_Patch
  \/ getClusterClass_FirstGetFails
  \/ getClusterClass_SecondGetFails

SpecClass == InitClass /\ [][NextClass]_vars

(***************************************************************************)
(* A twelfth specification for requests the reconciler skips: the request  *)
(* queue starts with a target that is not stored yet, the Cluster is       *)
(* written with or without a topology class, and the user may delete it.   *)
(***************************************************************************)
InitSkip ==
  /\ clusters = [t \in Clusters |-> NoCluster]
  /\ \E t \in Clusters :
       claims \in {{}, {[BoundClaim(t, <<>>, "hook")
                           EXCEPT !.addressRef = NoName, !.rv = 1]}}
  /\ addresses = {}
  /\ pools = {Pool("cp-pool", ClassX, <<controlPlaneRole>>),
              Pool("ingress-pool", ClassX, <<ingressRole>>)}
  /\ classes \in ClassConfigs
  /\ req \in [Clusters ->
               {[NoCluster EXCEPT !.class = cl, !.ingEnabled = ie] :
                  cl \in {<<>>, ClassX}, ie \in {"", "false"}}]
  /\ queue = Clusters
  /\ r = Idle
  /\ last = NoLast
  /\ h = HIdle
  /\ hResp = NoResp

NextSkip ==
  \/ ReconcilerNext
  \/ PersistCluster
  \/ UserDeleteCluster
  \/ Resync
  \/ IPAM_CreateAddress
  \/ IPAM_SetAddressRef

SpecSkip == InitSkip /\ [][NextSkip]_vars

(***************************************************************************)
(* A thirteenth specification for the second pass of the hook: the request *)
(* carries two Cluster items and two other items, drawn from a universe of *)
(* infrastructure clusters and other objects with and without a holder     *)
(* reference and a controlPlaneEndpoint field.                             *)
(***************************************************************************)
RequestVip == "10.0.0.77"

InfraItem(uid, group, kind, holder, name, hasSpec, hasEndpoint) ==
  [uid |-> uid, group |-> group, kind |-> kind, holder |-> holder,
   name |-> name, hasSpec |-> hasSpec, hasEndpoint |-> hasEndpoint]

InfraUniverse ==
  { InfraItem("u1", InfrastructureGroup, <<"Proxmox", "Cluster">>,
              "c1", "c1-x7k2p", TRUE, TRUE),
    InfraItem("u2", InfrastructureGroup, <<"Proxmox", "Cluster">>,
              "", "c2", TRUE, TRUE),
    InfraItem("u3", InfrastructureGroup, <<"Proxmox", "Cluster">>,
              "c2", "c1", TRUE, FALSE),
    InfraItem("u4", <<"controlplane", ".cluster.x-k8s.io">>,
              <<"Kubeadm", "ControlPlane">>, "c1", "c1-cp", TRUE, TRUE),
    InfraItem("u5", InfrastructureGroup, <<"Proxmox", "Cluster">>,
              "c3", "c1", TRUE, TRUE),
    InfraItem("u6", <<"infrastructure", ".example.org">>,
              <<"Custom", "Cluster">>, "c2", "c2-infra", TRUE, TRUE),
    InfraItem("u7", InfrastructureGroup, <<"Proxmox", "Machine", "Template">>,
              "c1", "c1-tmpl", TRUE, TRUE),
    InfraItem("u8", InfrastructureGroup, <<"Proxmox", "Cluster">>,
              "c1", "c1-nospec", FALSE, FALSE),
    InfraItem("u9", <<"infrastructure">>, <<"Other", "Cluster">>,
              "c1", "c1-short", TRUE, TRUE) }

InitInfra ==
  /\ clusters = [t \in {"c1", "c2"} |-> NoCluster]
  /\ claims = {}
  /\ addresses = {}
  /\ pools \in { {}, {Pool("cp-pool", ClassX, <<controlPlaneRole>>)} }
  /\ classes = {Class(Namespace, {"someOtherVariable", "clusterVip"})}
  /\ req \in [{"c1", "c2"} ->
               {[NoCluster EXCEPT !.class = ClassX, !.host = ManualHost],
                [NoCluster EXCEPT !.class = ClassX],
                [NoCluster EXCEPT !.class = ClassX,
                                  !.vars = <<Var("clusterVip",
                                                 Quote(RequestVip))>>],
                NoCluster}]
  /\ queue = {}
  /\ r = Idle
  /\ last = NoLast
  /\ \E i \in InfraUniverse : \E j \in InfraUniverse \ {i} :
       h = [HIdle EXCEPT !.pc = "item", !.rest = ItemClusters,
                         !.infra = <<i, j>>]
  /\ hResp = NoResp

SpecInfra == InitInfra /\ [][NextItems]_vars

(***************************************************************************)
(* A fourteenth specification for claims that outlive the labels of their  *)
(* pool: an administrator relabels the pools at any moment, so that the    *)
(* pool resolver returns the pool of an existing claim, another pool, or   *)
(* none.                                                                   *)
(***************************************************************************)
PoolLayouts ==
  { {Pool("cp-pool", ClassX, <<controlPlaneRole>>),
     Pool("ingress-pool", ClassX, <<ingressRole>>),
     Pool("spare-pool", ClassB, <<controlPlaneRole>>)},
    {Pool("cp-pool", ClassB, <<controlPlaneRole>>),
     Pool("ingress-pool", ClassX, <<controlPlaneRole>>),
     Pool("spare-pool", ClassX, <<ingressRole>>)},
    {Pool("cp-pool", ClassB, <<controlPlaneRole>>),
     Pool("ingress-pool", ClassB, <<ingressRole>>),
     Pool("spare-pool", ClassB, <<controlPlaneRole>>)} }

\* an administrator changes the labels of the pools
RelabelPools ==
  /\ \E layout \in PoolLayouts \ {pools} : pools' = layout
  /\ UNCHANGED <<clusters, claims, addresses, classes, req, queue, r, last, h,
                 hResp>>

InitRelabel ==
  /\ clusters = [t \in Clusters |-> NoCluster]
  /\ \E t \in Clusters :
       claims \in {{}, {[BoundClaim(t, <<>>, "hook")
                           EXCEPT !.addressRef = NoName, !.rv = 1]}}
  /\ addresses = {}
  /\ pools \in PoolLayouts
  /\ classes = {Class(Namespace, {"someOtherVariable", "clusterVip"})}
  /\ req \in [Clusters ->
               {[NoCluster EXCEPT !.class = ClassX, !.ingEnabled = ie] :
                  ie \in {"", "false"}}]
  /\ queue = {}
  /\ r = Idle
  /\ last = NoLast
  /\ h = HIdle
  /\ hResp = NoResp

NextRelabel ==
  \/ ReconcilerNext
  \/ PersistCluster
  \/ Resync
  \/ IPAM_CreateAddress
  \/ IPAM_SetAddressRef
  \/ RelabelPools

SpecRelabel == InitRelabel /\ [][NextRelabel]_vars

(***************************************************************************)
(* A fifteenth specification for a target whose endpoint is set while the  *)
(* pool manager's objects change under it: the address record of a claim   *)
(* gets another address or disappears, and a claim is deleted.             *)
(***************************************************************************)
\* the address record of a claim changes its address
IPAM_ChangeAddress ==
  \E a \in addresses : \E b \in Addrs :
    /\ \A x \in addresses : x.address # b
    /\ addresses' = (addresses \ {a}) \cup {[a EXCEPT !.address = b]}
    /\ UNCHANGED <<clusters, claims, pools, classes, req, queue, r, last, h,
                   hResp>>

\* the address record of a claim disappears
IPAM_DeleteAddress ==
  \E a \in addresses :
    /\ addresses' = addresses \ {a}
    /\ UNCHANGED <<clusters, claims, pools, classes, req, queue, r, last, h,
                   hResp>>

\* a claim is deleted
DeleteClaim ==
  \E c \in claims :
    /\ claims' = claims \ {c}
    /\ UNCHANGED <<clusters, addresses, pools, classes, req, queue, r, last, h,
                   hResp>>

NextChurn ==
  \/ NextBackground
  \/ IPAM_ChangeAddress
  \/ IPAM_DeleteAddress
  \/ DeleteClaim

SpecChurn == InitBound /\ [][NextChurn]_vars

(***************************************************************************)
(* A sixteenth specification for a Cluster that is deleted and created     *)
(* again under its name, while the garbage collector and the pool manager  *)
(* clean up after the first incarnation at their own pace.                 *)
(***************************************************************************)
NextReborn ==
  \/ ReconcilerNext
  \/ PersistCluster
  \/ UserDeleteCluster
  \/ GC_DeleteClaim
  \/ Resync
  \/ IPAM_CreateAddress
  \/ IPAM_SetAddressRef
  \/ IPAM_ReleaseAddress

SpecReborn == InitDelete /\ [][NextReborn]_vars

(***************************************************************************)
(* Properties                                                              *)
(***************************************************************************)
Roles == {controlPlaneRole, ingressRole}

ClaimsOf(t, role) == {c \in claims : c.for = t /\ c.role = role}

OwnedBy(c, t) == c.owners = <<[name |-> t, uid |-> clusters[t].uid]>>

\* a step of the reconciler, or of the hook, taken from the given position
RStep(pc) == r.pc = pc /\ r' # r
HStep(pc) == h.pc = pc /\ h' # h

ClassDeclaresVip(obj) ==
  hasClusterVipVariable(getClusterClass(obj.class, Namespace))

\* C1: in every reachable state there is at most one claim per (target,
\* role), and it is the claim named vip-cp-<target> or vip-ingress-<target>
C1_AtMostOneClaim ==
  \A t \in Clusters : \A role \in Roles :
    /\ Cardinality(ClaimsOf(t, role)) <= 1
    /\ \A c \in ClaimsOf(t, role) : c.name = ClaimName(role, t)

\* both paths went for the control-plane claim of one target: the hook made
\* it and the reconciler's create was turned down
C1_Witness ==
  /\ last.err = "create IPAddressClaim: already exists"
  /\ \E c \in ClaimsOf(last.t, controlPlaneRole) : c.by = "hook"

\* C2: a caller whose create is rejected with already-exists re-fetches the
\* claim and returns no error, and no second claim is created
C2_CreateRaceResolved ==
  /\ last.err # "create IPAddressClaim: already exists"
  /\ hResp.message # "create IPAddressClaim: already exists"
  /\ \A a, b \in claims : a.name = b.name => a = b

\* C3: an invocation that starts with a non-empty endpoint.host creates no
\* control-plane claim and leaves endpoint.host unchanged
C3_ManualOverride ==
  [][ /\ (RStep("create") /\ r.role = controlPlaneRole /\ r.host0 # "")
           => claims' = claims
      /\ (HStep("create") /\ h.obj.host # "") => claims' = claims
      /\ (r.pc # "idle" /\ r' # r /\ r.host0 # "")
           => clusters'[r.t].host = clusters[r.t].host
      /\ (h.pc # "idle" /\ h' # h /\ h.obj.host # "")
           => clusters' = clusters /\ hResp'.items = <<>> ]_vars

\* C4: a host set by the user is never replaced by this system
C4_ManualHostKept ==
  [][ \A t \in Clusters :
        clusters[t].host = ManualHost => clusters'[t].host = ManualHost ]_vars

\* C5: under fair scheduling of reconciles, a claim of a persisted target
\* that lacks its owner-reference eventually has exactly one, naming the
\* target
C5_EventuallyOwned ==
  \A t \in Clusters : \A role \in Roles :
    (clusters[t].exists /\ \E c \in ClaimsOf(t, role) : ~OwnedBy(c, t))
      ~> (\A c \in ClaimsOf(t, role) : OwnedBy(c, t))

\* C6: a reconcile of a persisted target that started with the hook's
\* unowned control-plane claim ends with that claim owned by the target,
\* and with no second claim
C6_ScenarioC ==
  \A t \in Clusters :
    (last.t = t /\ last.result # "none" /\ last.unowned0)
      => /\ Cardinality(ClaimsOf(t, controlPlaneRole)) = 1
         /\ \A c \in ClaimsOf(t, controlPlaneRole) : OwnedBy(c, t)

\* C7 as stated: the first ensure-claim call that finds an unowned claim
\* leaves it with exactly one owner-reference and returns no error
C7_AdoptedOnFirstCall ==
  [][ RStep("adopt")
        => /\ \A c \in claims' : c.name = r.claim.name => Len(c.owners) = 1
           /\ ~(last'.err \in {"adopt IPAddressClaim: conflict",
                               "adopt IPAddressClaim: not found"}) ]_vars

\* C7 amended: an adoption update that the store accepts leaves the claim
\* with exactly one owner-reference, naming the target; a call that finds an
\* owned claim writes nothing and returns no error; the adoption update is
\* written only to a claim stored without owner-reference; no claim ever has
\* more than one owner-reference
C7_AdoptionIdempotent ==
  [][ /\ (RStep("adopt") /\ GetClaim(r.claim.name).rv = r.claim.rv
            /\ GetClaim(r.claim.name).exists)
           => /\ \A c \in claims' : c.name = r.claim.name => OwnedBy(c, r.t)
              /\ ~(r'.pc = "idle" /\ last'.result = "error")
      /\ (RStep("getclaim") /\ Len(GetClaim(ClaimName(r.role, r.t)).owners) > 0)
           => /\ claims' = claims
              /\ ~(r'.pc = "idle" /\ last'.result = "error")
      /\ (RStep("adopt") /\ claims' # claims)
           => Len(GetClaim(r.claim.name).owners) = 0
      /\ \A c \in claims' : Len(c.owners) <= 1 ]_vars

\* the hook's claim has been adopted by one reconcile and a later reconcile
\* has found it owned
C7_Witness ==
  /\ r.pc = "getaddr" /\ r.role = controlPlaneRole /\ ~r.unowned0
  /\ last.unowned0 /\ last.result = "requeue"
  /\ \E c \in ClaimsOf(r.t, controlPlaneRole) :
       c.by = "hook" /\ OwnedBy(c, r.t) /\ r.claim = c

\* C8: clusterVip is written into the target's variables, by the reconciler's
\* patch or by the hook's response, only if the class declares clusterVip
C8_VariableOnlyIfDeclared ==
  /\ \A t \in Clusters :
       (clusters[t].exists /\ ~ClassDeclaresVip(clusters[t]))
         => clusters[t].vars = req[t].vars
  /\ (hResp.status = "Success" /\ ~ClassDeclaresVip(hResp.obj))
       => \A i \in 1..Len(hResp.items) :
            hResp.items[i].path = "/spec/controlPlaneEndpoint"

\* C9: with clusterVip declared, patchClusterEndpoint leaves exactly one
\* clusterVip variable, holding the quoted address written to endpoint.host,
\* replaced in place if it was there and appended otherwise, the other
\* variables unchanged
C9_UpsertClusterVip ==
  [][ (RStep("cppatch") /\ clusters[r.t].exists /\ hasClusterVipVariable(r.cls))
        => LET old == r.obj.vars
               new == clusters'[r.t].vars
               i == VarIndex(old, "clusterVip")
           IN /\ clusters'[r.t].host = r.ip
              /\ Cardinality({k \in 1..Len(new) : new[k].name = "clusterVip"}) = 1
              /\ \A k \in 1..Len(new) :
                   new[k].name = "clusterVip"
                     => new[k].value = Quote(clusters'[r.t].host)
              /\ IF i > 0
                   THEN /\ Len(new) = Len(old)
                        /\ new[i].name = "clusterVip"
                        /\ \A k \in (1..Len(old)) \ {i} : new[k] = old[k]
                   ELSE /\ Len(new) = Len(old) + 1
                        /\ new[Len(new)].name = "clusterVip"
                        /\ \A k \in 1..Len(old) : new[k] = old[k] ]_vars

\* the reconciler has patched a target whose clusterVip variable stood first:
\* it is still first and holds the quoted host, the other variable follows
C9_Witness ==
  \E t \in Clusters :
    /\ last.t = t /\ last.result = "ok" /\ last.host0 = ""
    /\ clusters[t].host \in Addrs
    /\ Len(clusters[t].vars) = 2
    /\ clusters[t].vars[1] = Var("clusterVip", Quote(clusters[t].host))
    /\ clusters[t].vars[2] = req[t].vars[2]

\* C10: whenever this system writes the endpoint, a pre-set nonzero port
\* keeps its value and a zero port becomes the default port
C10_PortPreservation ==
  /\ \A t \in Clusters :
       clusters[t].exists
         => clusters[t].port =
              IF req[t].port # 0 THEN req[t].port
              ELSE IF clusters[t].host \in {"", ManualHost} THEN 0
              ELSE DefaultPort
  /\ \A i \in 1..Len(hResp.items) :
       hResp.items[i].path = "/spec/controlPlaneEndpoint"
         => hResp.items[i].value.port =
              IF hResp.obj.port # 0 THEN hResp.obj.port ELSE DefaultPort

\* the values of a comma-separated label: the stretches between commas
Values(s) ==
  {SubSeq(s, i, j) : <<i, j>> \in
     {x \in (1..(Len(s) + 1)) \X (0..Len(s)) :
        /\ x[1] <= x[2] + 1
        /\ (x[1] = 1 \/ s[x[1] - 1] = ",")
        /\ (x[2] = Len(s) \/ s[x[2] + 1] = ",")
        /\ \A k \in x[1]..x[2] : s[k] # ","}}

\* a value without the blanks around it
Stripped(v) ==
  LET nb == {k \in 1..Len(v) : v[k] # " "}
  IN IF nb = {} THEN <<>>
     ELSE SubSeq(v, CHOOSE a \in nb : \A k \in nb : a <= k,
                    CHOOSE b \in nb : \A k \in nb : k <= b)

MemberOf(c, labelValue) == \E v \in Values(labelValue) : Stripped(v) = c

MatchesByMembership(pool, c, role) ==
  /\ clusterClassLabel \in DOMAIN pool.labels
  /\ roleLabel \in DOMAIN pool.labels
  /\ MemberOf(c, pool.labels[clusterClassLabel])
  /\ MemberOf(<<role>>, pool.labels[roleLabel])

\* C11: a pool matches (class, role) exactly when it carries both selector
\* labels and class and role are members of the comma-separated, trimmed
\* values of the two labels; the resolver returns a pool only if it matches
\* both, and reports no match only if no pool does
C11_PoolMatching ==
  /\ \A p \in pools : \A c \in {ClassB, ClassC} :
       \A role \in {controlPlaneRole, ingressRole, "other"} :
         PoolMatches(p, c, role) <=> MatchesByMembership(p, c, role)
  /\ r.pc = "create"
       => \E p \in pools : /\ p.name = r.claim.pool
                           /\ MatchesByMembership(p, r.obj.class, r.role)
  /\ (r.pc = "idle" /\ last.err = "no matching ip pool")
       => LET role == IF clusters[last.t].ingEnabled # "false"
                            /\ ClaimsOf(last.t, ingressRole) = {}
                         THEN ingressRole ELSE controlPlaneRole
          IN \A p \in pools :
               ~MatchesByMembership(p, clusters[last.t].class, role)

\* the pool labelled class "a,b,c", role "control-plane,ingress" has been
\* resolved for class b and role ingress, next to a pool that does not match
C11_Witness ==
  /\ r.pc = "create" /\ r.role = ingressRole /\ r.obj.class = ClassB
  /\ r.claim.pool = "p-list"
  /\ \E p \in pools : /\ p.name = "p-list"
                      /\ PoolMatches(p, ClassB, ingressRole)
                      /\ ~PoolMatches(p, ClassB, "other")
  /\ \E q \in pools : q.name = "p-a-only" /\ ~PoolMatches(q, ClassB, ingressRole)

\* C12: a pool resolution that finds no match, for a claim that does not
\* exist, makes ensureClaim fail with "no matching ip pool"; Reconcile
\* returns that error and no claim is created
C12_ScenarioB ==
  [][ (RStep("findpool") /\ findPool(r.obj.class, r.role) = {})
        => /\ claims' = claims
           /\ r'.pc = "idle"
           /\ last'.result = "error"
           /\ last'.err = "no matching ip pool" ]_vars

\* C13: with an empty host, no claim and a pool matching the control-plane
\* role, a finished reconcile has returned "requeue after the fixed delay"
\* without error, the claim vip-cp-<target> exists and the stored host is
\* still empty (no pool manager and no hook are at work in SpecPool, so every
\* reconcile there, the first one included, finds the address pending)
C13_FirstReconcileRequeues ==
  \A t \in Clusters :
    (/\ last.t = t /\ last.result # "none" /\ last.host0 = ""
     /\ \E p \in pools : PoolMatches(p, clusters[t].class, controlPlaneRole))
      => /\ last.result = "requeue" /\ last.err = ""
         /\ GetClaim(ClaimName(controlPlaneRole, t)).exists
         /\ clusters[t].host = ""

\* C14: a reconcile of a target with an empty host, whose control-plane
\* claim references a record with a non-empty address, returns no error and
\* no requeue and leaves the stored host equal to that address, and the port
\* equal to the default port when it was zero
C14_Resolution ==
  \A t \in Clusters :
    LET a == GetAddress(GetClaim(ClaimName(controlPlaneRole, t)).addressRef)
    IN (last.t = t /\ last.result # "none" /\ last.host0 = "" /\ a # "")
         => /\ last.result = "ok" /\ last.err = ""
            /\ clusters[t].host = a
            /\ req[t].port = 0 => clusters[t].port = DefaultPort

\* the three outcomes of resolveIPAddress as its callers turn them into the
\* next position of the reconcile
PendingOutcome ==
  IF r.role = ingressRole
    THEN r'.pc = "getclaim" /\ r'.role = controlPlaneRole
    ELSE r'.pc = "idle" /\ last'.result = "requeue" /\ last'.err = ""

ReadyOutcome(a) ==
  /\ r'.pc = (IF r.role = ingressRole THEN "ingpatch" ELSE "getclass")
  /\ r'.ip = a

ErrorOutcome == r'.pc = "idle" /\ last'.result = "error"

C16_PendingRequeues ==
  \A t \in Clusters :
    (/\ r.pc = "idle" /\ last.t = t /\ last.result # "none"
     /\ clusters[t].exists
     /\ clusters[t].ingEnabled # "false" /\ clusters[t].ingVip = ""
     /\ \E c \in ClaimsOf(t, ingressRole) :
          c.addressRef = NoName \/ GetAddress(c.addressRef) = "")
      => last.result # "ok"

\* C17: a reconcile that ends with the configuration error "no matching ip
\* pool" while no event for its target is waiting is not put back on the
\* queue by the dispatcher
C17_ConfigErrorTerminal ==
  [][ (r.pc # "idle" /\ r'.pc = "idle" /\ last'.err = "no matching ip pool"
         /\ last'.result = "error" /\ r.t \notin queue)
        => r.t \notin queue' ]_vars

\* C18: when the hook finds no pool for the target's class and the
\* control-plane role, its response is a Failure, it creates no claim and
\* returns no patch
C18_HookNoPoolFails ==
  [][ (HStep("findpool") /\ hookFindPool(h.obj.class, controlPlaneRole) = {})
        => /\ hResp'.status = "Failure"
           /\ hResp'.items = <<>>
           /\ claims' = claims ]_vars

\* C19: the response to a polling timeout is a Failure that carries a
\* retry-after hint greater than zero
C19_TimeoutRetryAfter ==
  hResp.message = "timeout waiting for IP allocation"
    => /\ hResp.status = "Failure"
       /\ "retryAfterSeconds" \in DOMAIN hResp
       /\ hResp.retryAfterSeconds > 0

\* C20: in the polling loop a read of an address record that is there with
\* its address either succeeds or aborts the polling with its error: it
\* leads neither to another poll nor to a timeout
C20_ReadErrorAborts ==
  [][ (HStep("polladdr") /\ AddressExists(h.claim.addressRef)
         /\ GetAddress(h.claim.addressRef) # "")
        => \/ hResp'.status = "Success"
           \/ /\ hResp'.status = "Failure"
              /\ hResp'.message # "timeout waiting for IP allocation" ]_vars

\* the time a hook request has spent when the step that ends it is taken:
\* the intervals waited so far and, for a timeout, the last one
ElapsedAtReturn ==
  h.elapsed +
    (IF hResp'.message = "timeout waiting for IP allocation" THEN 1 ELSE 0)

\* C21: no polling loop goes beyond the polling timeout, the polling timeout
\* is shorter than the handler deadline given in discovery, and a hook
\* request, whatever the number of its Cluster items, has spent less than
\* the handler deadline polling when it returns (h.elapsed counts intervals
\* of ipAllocationTimeout / MaxPolls seconds)
C21_ReturnsBeforeDeadline ==
  [][ /\ h'.polls < MaxPolls
      /\ ipAllocationTimeout < TimeoutSeconds
      /\ (h.pc # "idle" /\ h'.pc = "idle")
           => ElapsedAtReturn * ipAllocationTimeout < TimeoutSeconds * MaxPolls
    ]_vars

\* the write the reconciler is about to issue is one the store rejects: an
\* update of a claim that is gone or has moved on, a create of a taken name,
\* a patch of a target that is gone
WriteFails ==
  \/ /\ r.pc = "adopt"
     /\ LET s == GetClaim(r.claim.name)
        IN ~s.exists \/ s.rv # r.claim.rv
  \/ r.pc = "create" /\ GetClaim(r.claim.name).exists
  \/ r.pc \in {"ingpatch", "cppatch"} /\ ~clusters[r.t].exists

\* C22: a reconcile whose write (claim create, adoption update, target
\* patch) is rejected by the store ends there and returns an error
C22_FailedWriteSurfaced ==
  [][ (WriteFails /\ r' # r)
        => r'.pc = "idle" /\ last'.result = "error" /\ r.t \in queue' ]_vars

\* every entry of vs other than clusterVip is an entry of ws
OtherVariablesKept(vs, ws) ==
  \A i \in 1..Len(vs) :
    vs[i].name # "clusterVip" => \E j \in 1..Len(ws) : ws[j] = vs[i]

\* C23: the endpoint patch leaves in the stored target, as they stood when
\* the patch arrived, every topology variable other than clusterVip and
\* every field other than endpoint.host, endpoint.port and the variables
C23_PatchFrame ==
  [][ (RStep("cppatch") /\ clusters[r.t].exists)
        => /\ OtherVariablesKept(clusters[r.t].vars, clusters'[r.t].vars)
           /\ \A f \in (DOMAIN NoCluster) \ {"host", "port", "vars"} :
                clusters'[r.t][f] = clusters[r.t][f] ]_vars

\* the address bound to the control-plane claim of a target, "" if none
BoundAddress(t) ==
  GetAddress(GetClaim(ClaimName(controlPlaneRole, t)).addressRef)

\* C24: with the hook and the reconciler at work on one target in any
\* interleaving, the target has at most one control-plane claim, and every
\* endpoint host either path produces (the endpoint patch of a hook
\* response, the address the reconciler is about to patch, the host this
\* system has left in the stored target) is the address bound to that claim
C24_NoDoubleAllocation ==
  \A t \in Clusters :
    /\ Cardinality({c \in claims : c.for = t /\ c.role = controlPlaneRole}) <= 1
    /\ \A i \in 1..Len(hResp.items) :
         (hResp.t = t /\ hResp.items[i].path = "/spec/controlPlaneEndpoint")
           => hResp.items[i].value.host = BoundAddress(t)
    /\ (r.pc = "cppatch" /\ r.t = t) => r.ip = BoundAddress(t)
    /\ (clusters[t].exists /\ clusters[t].host \notin {"", ManualHost})
         => clusters[t].host = BoundAddress(t)

Deleted(t) == ~clusters[t].exists /\ clusters[t].uid # 0

\* C26: once the target is deleted, every claim made for it, by the hook or
\* by the reconciler, is eventually deleted
C26_CleanupAfterDelete ==
  \A t \in Clusters :
    Deleted(t) ~> (\A role \in Roles : ClaimsOf(t, role) = {})

\* C27: a persisted target with a class, an empty host and a pool matching
\* its class and the control-plane role eventually has the address bound to
\* its control-plane claim as its endpoint host
C27_BackgroundLiveness ==
  \A t \in Clusters :
    (/\ clusters[t].exists /\ clusters[t].class # <<>>
     /\ clusters[t].host = ""
     /\ \E p \in pools : PoolMatches(p, clusters[t].class, controlPlaneRole))
      ~> (clusters[t].host # "" /\ clusters[t].host = BoundAddress(t))

\* C28: a reconcile of a target with a class leaves the ingress role out
\* exactly when the annotation ingress-enabled is "false" or the ingress-vip
\* annotation is non-empty, and processes it in every other case; only a
\* reconcile that processes the role creates the ingress claim or writes the
\* ingress annotation and label, and a non-empty ingress-vip annotation is
\* left as it is
C28_IngressSkippedExactly ==
  [][ /\ (RStep("idle") /\ r'.pc # "idle")
           => LET obj == clusters[r'.t]
              IN IF obj.ingEnabled = "false" \/ obj.ingVip # ""
                   THEN r'.role = controlPlaneRole
                   ELSE r'.role = ingressRole /\ r'.pc = "getclaim"
      /\ (r'.role = ingressRole)
           => r'.obj.ingEnabled # "false" /\ r'.obj.ingVip = ""
      /\ \A c \in claims' :
           (c.role = ingressRole /\ ~GetClaim(c.name).exists)
             => r.role = ingressRole /\ RStep("create")
      /\ \A t \in Clusters :
           /\ (clusters[t].exists /\ <<clusters'[t].ingVip, clusters'[t].ingLabel>>
                                       # <<clusters[t].ingVip, clusters[t].ingLabel>>)
                => r.role = ingressRole /\ r.t = t /\ RStep("ingpatch")
           /\ (clusters[t].exists /\ clusters[t].ingVip # "")
                => clusters'[t].ingVip = clusters[t].ingVip ]_vars

\* a target whose ingress-enabled annotation is "False" has had its ingress
\* role processed, claim and annotation, while reconciles of targets with
\* the annotation "false" make no ingress claim
C28_Witness ==
  \E t \in Clusters :
    /\ clusters[t].exists /\ clusters[t].ingEnabled = "False"
    /\ req[t].ingVip = ""
    /\ \E c \in ClaimsOf(t, ingressRole) :
         clusters[t].ingVip = GetAddress(c.addressRef) /\ clusters[t].ingVip # ""
    /\ last.result = "ok"

\* the address bound to the ingress claim of a target, "" if none
BoundIngressAddress(t) ==
  GetAddress(GetClaim(ClaimName(ingressRole, t)).addressRef)

\* the ingress-vip annotation of the target is missing while its ingress
\* claim is bound to an address
AnnotationMissing(t) ==
  /\ clusters[t].exists /\ clusters[t].ingVip = ""
  /\ BoundIngressAddress(t) # ""

\* C29 as stated: a target whose ingress-vip annotation is missing while its
\* ingress claim is bound eventually has the annotation back, with the
\* claim's address, and there is never a second ingress claim
C29_AnnotationRestored ==
  /\ [](\A t \in Clusters : Cardinality(ClaimsOf(t, ingressRole)) <= 1)
  /\ \A t \in Clusters :
       AnnotationMissing(t) ~> (clusters[t].ingVip = BoundIngressAddress(t))

\* C29 amended: a target whose ingress-vip annotation is missing while its
\* ingress claim is bound eventually has the annotation back, with the
\* claim's address, unless ingress is, or gets, disabled by the annotation
\* ingress-enabled = "false"; the annotation never holds another value than
\* the claim's address, and there is never a second ingress claim
C29_AnnotationRestoredIfEnabled ==
  /\ [](\A t \in Clusters :
          /\ Cardinality(ClaimsOf(t, ingressRole)) <= 1
          /\ clusters[t].ingVip \in {"", BoundIngressAddress(t)})
  /\ \A t \in Clusters :
       (AnnotationMissing(t) /\ clusters[t].ingEnabled # "false")
         ~> (\/ clusters[t].ingVip = BoundIngressAddress(t)
             \/ clusters[t].ingEnabled = "false")

\* the annotation was written (the label tells), the user removed it, and
\* the reconcile that followed has found the one ingress claim and resolved
\* the address the label holds: it is at the patch that writes it back
C29_Witness ==
  \E t \in Clusters :
    /\ r.pc = "ingpatch" /\ r.t = t
    /\ clusters[t].ingVip = "" /\ r.obj.ingVip = ""
    /\ clusters[t].ingLabel = r.ip /\ r.ip = BoundIngressAddress(t)
    /\ r.ip \in Addrs
    /\ clusters[t].ingEnabled # "false"
    /\ Cardinality(ClaimsOf(t, ingressRole)) = 1

\* C30: a reconcile does not end in its ingress step: whatever the ingress
\* step comes to, failed, pending or written, the reconcile goes on to the
\* control-plane step
C30_IngressIndependent ==
  [][ (r.pc # "idle" /\ r.role = ingressRole /\ r' # r)
        => /\ r'.pc # "idle"
           /\ r'.role = controlPlaneRole => r'.pc = "getclaim" ]_vars

\* C31: no step of the reconciler or of the hook changes the record
\* reference in the status of a claim, or an address record; a claim they
\* create has an empty status; the adoption update leaves the status as the
\* store holds it, the pool manager's write after the reconciler's read
\* included
C31_StatusNeverWritten ==
  [][ (r' # r \/ h' # h)
        => /\ addresses' = addresses
           /\ \A c \in claims :
                \E d \in claims' : d.name = c.name /\ d.addressRef = c.addressRef
           /\ \A d \in claims' :
                ~GetClaim(d.name).exists => d.addressRef = NoName ]_vars

\* the pool manager wrote the status of the hook's claim between the
\* reconciler's read and its adoption update: the update was turned down
\* and the status is in place
C31_Witness ==
  /\ r.pc = "idle" /\ last.err = "adopt IPAddressClaim: conflict"
  /\ \E c \in ClaimsOf(last.t, controlPlaneRole) :
       c.by = "hook" /\ c.addressRef # NoName /\ Len(c.owners) = 0

\* C32: the class lookup ends in one of three ways: with the class-scoped
\* class of that name when there is one, else with the class of that name
\* in the target's namespace; with the error of the class-scoped read, and
\* then without a class (no fallback); or with the error of both lookups,
\* only when there is no class-scoped class; it ends with an error whenever
\* neither class exists
C32_ClassLookupOrder ==
  [][ RStep("getclass")
        => LET scoped == GetClass(r.obj.class, "")
               local == GetClass(r.obj.class, Namespace)
               failed(err) == /\ r'.pc = "idle" /\ last'.result = "error"
                              /\ last'.err = err
           IN /\ \/ /\ r'.pc = "cppatch"
                    /\ r'.cls = (IF scoped.exists THEN scoped ELSE local)
                    /\ r'.cls.exists /\ r'.cls.name = r.obj.class
                 \/ failed("get ClusterClass")
                 \/ failed("get ClusterClass (tried both)") /\ ~scoped.exists
              /\ (~scoped.exists /\ ~local.exists) => r'.pc = "idle" ]_vars

\* with a class-scoped class declaring clusterVip next to a class in the
\* target's namespace that does not, the lookup has returned the
\* class-scoped one
C32_Witness ==
  /\ r.pc = "cppatch"
  /\ r.cls.namespace = "" /\ "clusterVip" \in r.cls.variables
  /\ GetClass(r.obj.class, Namespace).exists
  /\ "clusterVip" \notin GetClass(r.obj.class, Namespace).variables

C34_SkippedRequestWritesNothing ==
  [][ /\ (r.pc = "idle"
            /\ \E t \in queue \ queue' :
                 ~clusters[t].exists \/ clusters[t].class = <<>>)
          => /\ r' = Idle
             /\ last'.result = "ok" /\ last'.err = ""
             /\ last'.t \in queue \ queue'
             /\ clusters' = clusters
             /\ claims' = claims
             /\ addresses' = addresses
      /\ r'.pc # "idle" => (r'.obj.exists /\ r'.obj.class # <<>>) ]_vars

\* a reconcile of a stored target without a topology class has ended without
\* error or requeue, and the store holds no claim
C34_Witness ==
  /\ r.pc = "idle" /\ last.result = "ok" /\ last.t \in Clusters
  /\ last.t \notin queue
  /\ clusters[last.t].exists /\ clusters[last.t].class = <<>>
  /\ clusters[last.t].host = ""
  /\ claims = {}

\* C35: a claim the reconciler creates for a target and a role is in the
\* target's namespace under the name of that role and target, carries the
\* role label of that role and no other label, references a pool the pool
\* resolver returns for the target's class and that role, has exactly one
\* owner-reference, which names the target and its UID, and has no status
C35_CreatedClaimShape ==
  [][ RStep("create")
        => \A c \in claims' :
             ~GetClaim(c.name).exists
               => /\ c.namespace = Namespace
                  /\ c.name = ClaimName(r.role, r.t)
                  /\ c.role = r.role
                  /\ c.clusterName = ""
                  /\ c.pool \in findPool(clusters[r.t].class, r.role)
                  /\ Len(c.owners) = 1
                  /\ c.owners[1] = [name |-> r.t, uid |-> clusters[r.t].uid]
                  /\ c.addressRef = NoName ]_vars

\* the reconciler has created the ingress claim of a target from a pool
\* whose labels are comma-separated lists
C35_Witness ==
  \E t \in Clusters :
    /\ GetClaim(ClaimName(ingressRole, t)).exists
    /\ GetClaim(ClaimName(ingressRole, t)).by = "reconciler"
    /\ GetClaim(ClaimName(ingressRole, t)).role = ingressRole
    /\ GetClaim(ClaimName(ingressRole, t)).pool = "p-list"
    /\ Len(GetClaim(ClaimName(ingressRole, t)).owners) = 1

\* the address the first pass determines for a Cluster item of the request:
\* its pre-set host, else the clusterVip variable of the request, else the
\* address bound to its claim; "" when there is none
FirstPassAddress(t) ==
  IF t \notin DOMAIN req \/ req[t].class = <<>> THEN ""
  ELSE IF req[t].host # "" THEN req[t].host
  ELSE IF getVariableValueFromList(req[t].vars, "clusterVip") # ""
    THEN getVariableValueFromList(req[t].vars, "clusterVip")
  ELSE GetAddress(GetClaim(hookClaimName(t)).addressRef)

\* the Cluster that holds an item: the name of its holder reference, else
\* the item's own name
HolderOf(item) == IF item.holder # "" THEN item.holder ELSE item.name

\* C36: when GeneratePatches returns, every patch of its response for an
\* item other than a Cluster is a controlPlaneEndpoint patch of an
\* infrastructure cluster of the request whose spec has a
\* controlPlaneEndpoint field and whose holder Cluster has an address from
\* the first pass, and its host is that address; a Failure response carries
\* no such patch
C36_InfraPatchedFromFirstPass ==
  [][ (h.pc # "idle" /\ h'.pc = "idle")
        => /\ \A k \in 1..Len(hResp'.infra) :
                \E n \in 1..Len(h.infra) :
                  LET p == hResp'.infra[k]
                      item == h.infra[n]
                  IN /\ p.uid = item.uid
                     /\ p.path = "/spec/controlPlaneEndpoint"
                     /\ isInfrastructureCluster(item)
                     /\ item.hasSpec /\ item.hasEndpoint
                     /\ FirstPassAddress(HolderOf(item)) # ""
                     /\ p.value.host = FirstPassAddress(HolderOf(item))
                     /\ p.value.port = defaultPort
           /\ hResp'.status = "Failure" => hResp'.infra = <<>>
           /\ hResp'.status \in {"Success", "Failure"} ]_vars

\* a response patches an infrastructure cluster with the address the hook
\* allocated for its holder Cluster in the same request
C36_Witness ==
  /\ h.pc = "idle" /\ hResp.status = "Success"
  /\ \E k \in 1..Len(hResp.infra) : \E t \in {"c1", "c2"} :
       /\ hResp.infra[k].value.host = GetAddress(ClaimName(controlPlaneRole, t))
       /\ GetClaim(ClaimName(controlPlaneRole, t)).by = "hook"
       /\ req[t].host = ""

\* C37: when ensureClaim finds the claim of the target and the role with at
\* least one owner-reference, it returns that claim and writes nothing, and
\* no step of a reconcile changes a claim that has an owner-reference: its
\* owner-references, labels and pool reference stay as they are, whatever
\* pool the resolver would return now
C37_OwnedClaimUntouched ==
  [][ /\ (RStep("getclaim")
            /\ Len(GetClaim(ClaimName(r.role, r.t)).owners) >= 1)
          => /\ claims' = claims
             /\ r'.pc \notin {"adopt", "findpool", "create"}
             /\ r'.pc = "getaddr" => r'.claim = GetClaim(ClaimName(r.role, r.t))
      /\ r' # r
          => \A c \in claims : Len(c.owners) >= 1 => c \in claims' ]_vars

\* a reconcile goes on with an existing owned claim for a pool that the
\* resolver would not return any more for the target's class and that role
C37_Witness ==
  /\ r.pc = "getaddr"
  /\ r.claim \in claims
  /\ Len(r.claim.owners) = 1
  /\ r.claim.pool \notin findPool(r.obj.class, r.role)
  /\ r.claim.pool \in {p.name : p \in pools}

\* C38: a reconcile that starts when the stored target has a non-empty
\* endpoint host changes neither the host, the port nor the topology
\* variables of the target, clusterVip included, whatever has become of the
\* claim and of its address record
C38_BoundIsStable ==
  [][ (r.pc # "idle" /\ r' # r /\ r.host0 # "")
        => /\ clusters'[r.t].host = clusters[r.t].host
           /\ clusters'[r.t].port = clusters[r.t].port
           /\ clusters'[r.t].vars = clusters[r.t].vars ]_vars

\* a reconcile that started with the host set has ended, and the address
\* bound to the target's claim is by now another one than the stored host,
\* which the reconciler once wrote
C38_Witness ==
  /\ r.pc = "idle" /\ last.result = "ok" /\ last.host0 \in Addrs \cup {"10.0.0.15"}
  /\ clusters[last.t].host = last.host0
  /\ clusters[last.t].vars # req[last.t].vars
  /\ \E c \in ClaimsOf(last.t, controlPlaneRole) :
       /\ c.addressRef # NoName
       /\ GetAddress(c.addressRef) \notin {"", clusters[last.t].host}

\* C39: the hook's pool resolver finds a pool for a class and a role exactly
\* when the reconciler's resolver finds one, pools with comma-separated
\* label values included, and where exactly one pool matches both return it
C39_ResolversAgree ==
  [][ /\ HStep("findpool")
          => /\ h'.pc = "getclaim"
                  <=> findPool(h.obj.class, controlPlaneRole) # {}
             /\ Cardinality(findPool(h.obj.class, controlPlaneRole)) = 1
                  => h'.pool \in findPool(h.obj.class, controlPlaneRole)
      /\ RStep("findpool")
          => /\ r'.pc = "create" <=> hookFindPool(r.obj.class, r.role) # {}
             /\ Cardinality(hookFindPool(r.obj.class, r.role)) = 1
                  => r'.claim.pool \in hookFindPool(r.obj.class, r.role) ]_vars

\* C40: the claim a reconcile goes on with after ensureClaim is owned by the
\* incarnation of the target that the reconcile read: one of its
\* owner-references carries the target's name and that UID
C40_ClaimOfCurrentIncarnation ==
  r.pc \in {"getaddr", "ingpatch", "getclass", "cppatch"}
    => \E i \in 1..Len(r.claim.owners) :
         r.claim.owners[i] = [name |-> r.t, uid |-> r.obj.uid]

====
